---- MODULE Spec2Model ----
(***************************************************************************)
(* Ingestion pipeline of the ocean data dashboard: the NOAA ERDDAP job     *)
(* runner (noaa_service.py), the Copernicus Marine job runner              *)
(* (copernicus_service.py) and the tables of api/models.py they write.     *)
(*                                                                         *)
(* Numbers stand for floats (coordinates, degrees Celsius, PSU) and for    *)
(* datetimes (ticks of the clock `now`).  A JSON cell of a provider row is *)
(* a record [kind, num, str]: a number, a string or null.                  *)
(*                                                                         *)
(* The rows of a batch are drawn when the loop reaches them: the code      *)
(* reads nothing of a row before its iteration, so this is the same as     *)
(* drawing the whole table when the response arrives; only the column      *)
(* names and the number of rows are read up front.                         *)
(***************************************************************************)
EXTENDS Integers, Sequences, FiniteSets, TLC

VARIABLES
    now,            \* timezone.now(), in ticks
    sources,        \* DataSource table: name -> row, for the names that exist
    locations,      \* Location table: set of rows
    nextLocId,      \* Location primary key sequence
    temps,          \* TemperatureObservation table: set of rows
    sals,           \* SalinityObservation table: set of rows
    logs,           \* IngestionLog table: id -> row, for the ids that exist
    nextLogId,      \* IngestionLog primary key sequence
    noaa,           \* the NOAA invocation in progress (NOAAERDDAPService.fetch_buoy_data)
    cop,            \* the Copernicus invocation in progress (CopernicusMarineService)
    last,           \* the batch of the latest whole invocation (history, read by no handler)
    currents,       \* CurrentObservation table: set of rows
    stats,          \* what the latest cleanup_expired_data returned (history, read by no handler)
    task,           \* the scheduled Celery task fetch_noaa_data
    settings        \* settings.DATA_INGESTION: key -> value, for the keys that are configured

vars == <<now, sources, locations, nextLocId, temps, sals, logs, nextLogId, noaa, cop, last,
          currents, stats, task, settings>>

----------------------------------------------------------------------------
(* Bounds of the model *)

MaxNow == 1
MaxJobs == 2
MaxRows == 2

----------------------------------------------------------------------------
(* Cells and Python conversions *)

Num(n) == [kind |-> "num", num |-> n, str |-> ""]
Str(s) == [kind |-> "str", num |-> 0, str |-> s]
NullCell == [kind |-> "null", num |-> 0, str |-> ""]

\* Text that float() parses, with the value it yields
NumericText == [s \in {"10", "30"} |-> IF s = "10" THEN 10 ELSE 30]

\* Text that float() parses to the not-a-number value (in any letter case)
NanText == {"NaN", "nan", "NAN"}

\* float(x): [exc, val, nan]; nan says the result is not-a-number, which no comparison holds of
PyFloat(c) ==
    IF c.kind = "num" THEN [exc |-> "none", val |-> c.num, nan |-> FALSE]
    ELSE IF c.kind = "null" THEN [exc |-> "TypeError", val |-> 0, nan |-> FALSE]
    ELSE IF c.str \in DOMAIN NumericText
    THEN [exc |-> "none", val |-> NumericText[c.str], nan |-> FALSE]
    ELSE IF c.str \in NanText THEN [exc |-> "none", val |-> 0, nan |-> TRUE]
    ELSE [exc |-> "ValueError", val |-> 0, nan |-> FALSE]

\* lo <= float(x) <= hi
InRange(f, lo, hi) == ~f.nan /\ lo <= f.val /\ f.val <= hi

\* Text that datetime.fromisoformat() parses (after Z -> +00:00), with the tick it denotes
IsoText == [s \in {"T0", "T1"} |-> IF s = "T0" THEN 0 ELSE 1]

\* datetime.fromisoformat(x.replace("Z", "+00:00")): [exc, val]
PyIsoTime(c) ==
    IF c.kind # "str" THEN [exc |-> "AttributeError", val |-> 0]
    ELSE IF c.str \in DOMAIN IsoText THEN [exc |-> "none", val |-> IsoText[c.str]]
    ELSE [exc |-> "ValueError", val |-> 0]

\* list.index(x): the first position of x, 0 standing for ValueError
RECURSIVE IndexFrom(_, _, _)
IndexFrom(s, x, i) ==
    IF i > Len(s) THEN 0
    ELSE IF s[i] = x THEN i
    ELSE IndexFrom(s, x, i + 1)

ListIndex(s, x) == IndexFrom(s, x, 1)

\* The first column, in column order, whose name is in the alias list: its index, or 0
RECURSIVE FirstColumnAlias(_, _, _)
FirstColumnAlias(columns, fields, k) ==
    IF k > Len(columns) THEN 0
    ELSE IF \E j \in 1..Len(fields) : fields[j] = columns[k] THEN k
    ELSE FirstColumnAlias(columns, fields, k + 1)

\* The first name of an ordered alias list that occurs among the columns: its index, or 0 (None)
RECURSIVE FirstAlias(_, _, _)
FirstAlias(columns, fields, k) ==
    IF k > Len(fields) THEN 0
    ELSE IF ListIndex(columns, fields[k]) # 0 THEN ListIndex(columns, fields[k])
    ELSE FirstAlias(columns, fields, k + 1)

temp_fields == <<"wtmp", "sea_surface_temperature", "sst", "water_temperature">>
salinity_fields == <<"sal", "salinity", "sea_surface_salinity", "psu">>

\* The cells a quantity column is compared with before float() is tried
MissingMarkers == {NullCell, Str("NaN"), Str(""), Str("null"), Str("NULL")}

TempMin == -5
TempMax == 40
SalMin == 0
NoaaSalMax == 45
CopSalMax == 50

----------------------------------------------------------------------------
(* Storage layer: the tables of api/models.py and the Django manager calls *)

NullVal == <<>>          \* a NULL column; a set value v is <<v>>

NOAA == "NOAA ERDDAP"
COPERNICUS == "Copernicus Marine"

\* Location.objects.filter(latitude=lat, longitude=lon)
LocFilter(locs, lat, lon) == {l \in locs : l.latitude = lat /\ l.longitude = lon}

\* unique_together (latitude, longitude, depth_meters): would inserting this triple be refused.
\* nd: the storage engine treats NULLs as distinct in a unique constraint (PostgreSQL, SQLite,
\* MySQL do; Oracle does not), so that two NULL depths collide only when nd is FALSE.
LocUniqueViolation(locs, lat, lon, depth, nd) ==
    \E l \in locs : /\ l.latitude = lat
                    /\ l.longitude = lon
                    /\ l.depth_meters = depth
                    /\ (depth # NullVal \/ ~nd)

\* A lookup that never matches a stored row
LocGetNoMatch(locs, lat, lon) == [kind |-> "none", loc |-> 0]

\* Manager.get(latitude=lat, longitude=lon): "one" row, "none" (DoesNotExist) or "many"
LocGet(locs, lat, lon) ==
    LET m == LocFilter(locs, lat, lon) IN
    IF m = {} THEN [kind |-> "none", loc |-> 0]
    ELSE IF Cardinality(m) = 1 THEN [kind |-> "one", loc |-> (CHOOSE l \in m : TRUE).id]
    ELSE [kind |-> "many", loc |-> 0]

\* The create half of get_or_create: insert with the defaults and a NULL depth; on
\* IntegrityError get again and re-raise when that finds nothing.
LocCreate(locs, nextId, lat, lon, name, region, nd) ==
    IF LocUniqueViolation(locs, lat, lon, NullVal, nd)
    THEN LET g == LocGet(locs, lat, lon) IN
         [exc |-> IF g.kind = "one" THEN "none"
                  ELSE IF g.kind = "many" THEN "MultipleObjectsReturned"
                  ELSE "IntegrityError",
          loc |-> g.loc, locs |-> locs, nextId |-> nextId]
    ELSE [exc |-> "none", loc |-> nextId, nextId |-> nextId + 1,
          locs |-> locs \cup {[id |-> nextId, latitude |-> lat, longitude |-> lon,
                               depth_meters |-> NullVal, name |-> name, region |-> region]}]

\* A get_or_create that writes the hints to the row it finds
LocGetOrCreateUpdating(locs, nextId, lat, lon, name, region, nd) ==
    LET g == LocGet(locs, lat, lon) IN
    IF g.kind = "one"
    THEN [exc |-> "none", loc |-> g.loc, nextId |-> nextId,
          locs |-> {IF l.id = g.loc THEN [l EXCEPT !.name = name, !.region = region] ELSE l :
                      l \in locs}]
    ELSE IF g.kind = "many"
    THEN [exc |-> "MultipleObjectsReturned", loc |-> 0, locs |-> locs, nextId |-> nextId]
    ELSE LocCreate(locs, nextId, lat, lon, name, region, nd)

\* A get_or_create that inserts without looking the coordinates up
LocAlwaysCreate(locs, nextId, lat, lon, name, region, nd) ==
    LocCreate(locs, nextId, lat, lon, name, region, nd)

\* Location.objects.get_or_create(latitude=lat, longitude=lon, defaults={name, region}),
\* run without another writer in between
LocGetOrCreate(locs, nextId, lat, lon, name, region, nd) ==
    LET g == LocGet(locs, lat, lon) IN
    IF g.kind = "one" THEN [exc |-> "none", loc |-> g.loc, locs |-> locs, nextId |-> nextId]
    ELSE IF g.kind = "many"
    THEN [exc |-> "MultipleObjectsReturned", loc |-> 0, locs |-> locs, nextId |-> nextId]
    ELSE LocCreate(locs, nextId, lat, lon, name, region, nd)

\* The rows of an observation table with the key (location, source, timestamp)
ObsFilter(table, loc, src, ts) ==
    {o \in table : o.location = loc /\ o.source = src /\ o.timestamp = ts}

ObsRow(loc, src, ts, val) == [location |-> loc, source |-> src, timestamp |-> ts, value |-> val]

\* An update_or_create that keeps the stored value when the key exists
ObsKeepFirst(table, loc, src, ts, val) ==
    IF ObsFilter(table, loc, src, ts) = {}
    THEN [exc |-> "none", table |-> table \cup {ObsRow(loc, src, ts, val)}]
    ELSE [exc |-> "none", table |-> table]

\* <Observation>.objects.update_or_create(location, source, timestamp, defaults={value})
UpdateOrCreate(table, loc, src, ts, val) ==
    LET m == ObsFilter(table, loc, src, ts) IN
    IF Cardinality(m) > 1 THEN [exc |-> "MultipleObjectsReturned", table |-> table]
    ELSE [exc |-> "none", table |-> (table \ m) \cup {ObsRow(loc, src, ts, val)}]

\* A job record that is created with its completion time set
NewLogCompleted(src, t) ==
    [source |-> src, status |-> "running", started_at |-> t, completed_at |-> <<t>>,
     records_fetched |-> 0, records_inserted |-> 0, error_message |-> ""]

\* IngestionLog.objects.create(source=src, status="running")
NewLog(src, t) ==
    [source |-> src, status |-> "running", started_at |-> t, completed_at |-> NullVal,
     records_fetched |-> 0, records_inserted |-> 0, error_message |-> ""]

\* A save that also closes the other records still in status running
SaveLogClosingRunning(lg, id, rec) ==
    [j \in (DOMAIN lg) \cup {id} |->
       IF j = id THEN rec
       ELSE IF lg[j].status = "running" THEN [lg[j] EXCEPT !.status = "failed"]
       ELSE lg[j]]

\* log.save(): writes the fields of the in-memory object to its row
SaveLog(lg, id, rec) == [j \in (DOMAIN lg) \cup {id} |-> IF j = id THEN rec ELSE lg[j]]

\* DataSource.objects.get_or_create(name=..., defaults={..., is_active})
SourceGetOrCreate(srcs, name, active) ==
    IF name \in DOMAIN srcs THEN srcs
    ELSE [n \in (DOMAIN srcs) \cup {name} |->
            IF n = name THEN [is_active |-> active, last_fetch |-> NullVal] ELSE srcs[n]]

----------------------------------------------------------------------------
(* Provider input: column layouts and the cells a column may carry *)

NoaaLayouts ==
    { <<"station", "latitude", "longitude", "time", "wtmp">>,
      <<"station", "latitude", "longitude", "wtmp">> }

\* The cells of a column; wide adds a second coordinate
CellsFor(name, wide) ==
    CASE name = "station"   -> {Str("S1")}
      [] name = "latitude"  -> {Num(10), Str("abc"), NullCell} \cup (IF wide THEN {Num(20)} ELSE {})
      [] name = "longitude" -> {Num(5)}
      [] name = "time"      -> {Str("T0"), Str("bad"), NullCell}
      [] name = "wtmp"      -> {Num(20), Str("30"), Str("NaN")}
      [] OTHER              -> {NullCell}

\* The rows of k cells a layout admits, one cell per column
RECURSIVE RowsUpTo(_, _, _)
RowsUpTo(columns, k, wide) ==
    IF k = 0 THEN {<<>>}
    ELSE {Append(r, c) : r \in RowsUpTo(columns, k - 1, wide), c \in CellsFor(columns[k], wide)}

\* The rows a layout admits: complete, or cut short by one cell
RowsOf(columns, wide) ==
    RowsUpTo(columns, Len(columns), wide) \cup RowsUpTo(columns, Len(columns) - 1, wide)

\* The rows of each layout
RowTable == [columns \in NoaaLayouts |-> RowsOf(columns, FALSE)]
WideRowTable == [columns \in NoaaLayouts |-> RowsOf(columns, TRUE)]

\* The rows the response in hand can hold
NoaaRows(columns) == IF columns \in NoaaLayouts THEN RowTable[columns] ELSE {}
NoaaWideRows(columns) == IF columns \in NoaaLayouts THEN WideRowTable[columns] ELSE {}

\* str(cell), as an f-string renders it
CellText(c) ==
    IF c.kind = "str" THEN c.str
    ELSE IF c.kind = "null" THEN "None"
    ELSE IF c.num = 10 THEN "10" ELSE IF c.num = 20 THEN "20" ELSE "5"

----------------------------------------------------------------------------
(* NOAAERDDAPService._process_buoy_data *)

\* The column indexes the loop uses; ok is FALSE when columns.index raises ValueError
NoaaIndexes(columns) ==
    [ok      |-> /\ ListIndex(columns, "time") # 0
                 /\ ListIndex(columns, "latitude") # 0
                 /\ ListIndex(columns, "longitude") # 0
                 /\ ListIndex(columns, "station") # 0,
     time    |-> ListIndex(columns, "time"),
     lat     |-> ListIndex(columns, "latitude"),
     lon     |-> ListIndex(columns, "longitude"),
     station |-> ListIndex(columns, "station"),
     temp    |-> FirstAlias(columns, temp_fields, 1),
     sal     |-> FirstAlias(columns, salinity_fields, 1)]

\* The arguments of the row's get_or_create, evaluated in order: [exc, lat, lon, name]
NoaaLocArgs(row, ix) ==
    LET none == [exc |-> "none", lat |-> 0, lon |-> 0, name |-> ""] IN
    IF ix.lat > Len(row) THEN [none EXCEPT !.exc = "IndexError"]
    ELSE IF PyFloat(row[ix.lat]).exc # "none" THEN [none EXCEPT !.exc = PyFloat(row[ix.lat]).exc]
    ELSE IF ix.lon > Len(row) THEN [none EXCEPT !.exc = "IndexError"]
    ELSE IF PyFloat(row[ix.lon]).exc # "none" THEN [none EXCEPT !.exc = PyFloat(row[ix.lon]).exc]
    ELSE IF ix.station > Len(row) THEN [none EXCEPT !.exc = "IndexError"]
    ELSE [exc |-> "none", lat |-> PyFloat(row[ix.lat]).val, lon |-> PyFloat(row[ix.lon]).val,
          name |-> "Buoy " \o CellText(row[ix.station])]

\* A quantity block without the missing-marker test and without its own handler
NoaaQuantityUnguarded(table, loc, ts, row, idx, lo, hi) ==
    LET same == [exc |-> "none", table |-> table, n |-> 0] IN
    IF idx = 0 THEN same
    ELSE IF idx > Len(row) THEN [same EXCEPT !.exc = "IndexError"]
    ELSE IF PyFloat(row[idx]).exc # "none" THEN [same EXCEPT !.exc = PyFloat(row[idx]).exc]
    ELSE IF ~InRange(PyFloat(row[idx]), lo, hi) THEN same
    ELSE [exc |-> "none", n |-> 1,
          table |-> (table \ ObsFilter(table, loc, NOAA, ts))
                      \cup {ObsRow(loc, NOAA, ts, PyFloat(row[idx]).val)}]

\* One quantity of a row: [exc, table, n] with n the number of observations written.
\* idx = 0 is a quantity the batch does not have.
NoaaQuantity(table, loc, ts, row, idx, lo, hi) ==
    LET same == [exc |-> "none", table |-> table, n |-> 0] IN
    IF idx = 0 THEN same
    ELSE IF idx > Len(row) THEN [same EXCEPT !.exc = "IndexError"]
    ELSE IF row[idx] \in MissingMarkers THEN same
    ELSE IF PyFloat(row[idx]).exc # "none" THEN same
    ELSE IF ~InRange(PyFloat(row[idx]), lo, hi) THEN same
    ELSE LET u == UpdateOrCreate(table, loc, NOAA, ts, PyFloat(row[idx]).val) IN
         [exc |-> u.exc, table |-> u.table, n |-> IF u.exc = "none" THEN 1 ELSE 0]

\* A row body that leaves the salinity block out when no temperature was stored
NoaaAfterLocTemperatureFirst(tt, ss, loc, row, ix) ==
    LET same == [exc |-> "none", temps |-> tt, sals |-> ss, dt |-> 0, ds |-> 0] IN
    IF ix.time > Len(row) THEN [same EXCEPT !.exc = "IndexError"]
    ELSE IF PyIsoTime(row[ix.time]).exc # "none" THEN [same EXCEPT !.exc = PyIsoTime(row[ix.time]).exc]
    ELSE LET ts == PyIsoTime(row[ix.time]).val
             t == NoaaQuantity(tt, loc, ts, row, ix.temp, TempMin, TempMax) IN
         IF t.exc # "none" THEN [same EXCEPT !.exc = t.exc]
         ELSE IF t.n = 0 THEN same
         ELSE LET q == NoaaQuantity(ss, loc, ts, row, ix.sal, SalMin, NoaaSalMax) IN
              [exc |-> q.exc, temps |-> t.table, sals |-> q.table, dt |-> t.n, ds |-> q.n]

\* The rest of a row once its Location is resolved: [exc, temps, sals, dt, ds]
NoaaAfterLoc(tt, ss, loc, row, ix) ==
    LET same == [exc |-> "none", temps |-> tt, sals |-> ss, dt |-> 0, ds |-> 0] IN
    IF ix.time > Len(row) THEN [same EXCEPT !.exc = "IndexError"]
    ELSE IF PyIsoTime(row[ix.time]).exc # "none" THEN [same EXCEPT !.exc = PyIsoTime(row[ix.time]).exc]
    ELSE LET ts == PyIsoTime(row[ix.time]).val
             t == NoaaQuantity(tt, loc, ts, row, ix.temp, TempMin, TempMax) IN
         IF t.exc # "none" THEN [same EXCEPT !.exc = t.exc]
         ELSE LET q == NoaaQuantity(ss, loc, ts, row, ix.sal, SalMin, NoaaSalMax) IN
              [exc |-> q.exc, temps |-> t.table, sals |-> q.table, dt |-> t.n, ds |-> q.n]

\* except (ValueError, IndexError): the row is skipped and the loop goes on
NoaaRowCaught(exc) == exc \in {"ValueError", "IndexError"}

----------------------------------------------------------------------------
(* NOAAERDDAPService.fetch_buoy_data: one invocation *)

NoPending == [row |-> <<>>, lat |-> 0, lon |-> 0, name |-> ""]

NoaaIdle(result, exc, log) ==
    [pc |-> "idle", result |-> result, exc |-> exc, log |-> log, started_at |-> 0,
     columns |-> <<>>, nrows |-> 0, i |-> 0,
     temp_records |-> 0, salinity_records |-> 0, pending |-> NoPending]

\* The in-memory log object of an invocation before its final save
LogObject(src, p) == NewLog(src, p.started_at)

\* __init__ and the creation of the job record
NoaaStart ==
    /\ noaa.pc = "idle"
    /\ nextLogId <= MaxJobs
    /\ sources' = SourceGetOrCreate(sources, NOAA, TRUE)
    /\ logs' = SaveLog(logs, nextLogId, NewLog(NOAA, now))
    /\ nextLogId' = nextLogId + 1
    /\ noaa' = [NoaaIdle("none", "none", nextLogId) EXCEPT
                  !.pc = "fetch", !.started_at = now]
    /\ UNCHANGED <<settings, task, currents, stats, last, now, locations, nextLocId, temps, sals, cop>>

\* An except branch that writes the failure to a job record of its own
NoaaFailedNewRecord(exc) ==
    /\ logs' = SaveLog(logs, Cardinality(DOMAIN logs) + 1,
                       [LogObject(NOAA, noaa) EXCEPT !.status = "failed",
                                                     !.completed_at = <<now>>,
                                                     !.error_message = exc])
    /\ noaa' = NoaaIdle("raised", exc, noaa.log)

\* A failure branch that marks every job record of the source, not the invocation's own
NoaaFailedEveryLog(exc) ==
    /\ logs' = [j \in (DOMAIN logs) \cup {noaa.log} |->
                  IF j = noaa.log \/ logs[j].source = NOAA
                  THEN [LogObject(NOAA, noaa) EXCEPT !.status = "failed",
                                                    !.completed_at = <<now>>,
                                                    !.error_message = exc]
                  ELSE logs[j]]
    /\ noaa' = NoaaIdle("raised", exc, noaa.log)

\* The except branch of fetch_buoy_data: record the failure, then raise
NoaaFailed(exc) ==
    /\ logs' = SaveLog(logs, noaa.log,
                       [LogObject(NOAA, noaa) EXCEPT !.status = "failed",
                                                     !.completed_at = <<now>>,
                                                     !.error_message = exc])
    /\ noaa' = NoaaIdle("raised", exc, noaa.log)

\* requests.get / raise_for_status / response.json() raises
NoaaFetchError ==
    /\ noaa.pc = "fetch"
    /\ NoaaFailed("RequestException")
    /\ UNCHANGED <<settings, task, currents, stats, last, now, sources, locations, nextLocId, temps, sals, nextLogId, cop>>

\* The response arrives: column names and row count are read, the indexes looked up
NoaaResponse(columns, n) ==
    /\ noaa.pc = "fetch"
    /\ noaa' = [noaa EXCEPT !.columns = columns, !.nrows = n,
                            !.pc = IF NoaaIndexes(columns).ok /\ n > 0 THEN "rows" ELSE "finish"]
    /\ UNCHANGED <<settings, task, currents, stats, last, now, sources, locations, nextLocId, temps, sals, logs, nextLogId, cop>>

\* What a row's outcome does to the loop: go on, or leave through the except branch
NoaaAfterRow(exc, tt, ss, dt, ds) ==
    /\ temps' = tt
    /\ sals' = ss
    /\ IF exc = "none" \/ NoaaRowCaught(exc)
       THEN /\ noaa' = [noaa EXCEPT !.i = @ + 1,
                                    !.temp_records = @ + dt,
                                    !.salinity_records = @ + ds,
                                    !.pending = NoPending,
                                    !.pc = IF noaa.i + 1 = noaa.nrows THEN "finish" ELSE "rows"]
            /\ UNCHANGED logs
       ELSE NoaaFailed(exc)

\* A row, up to the lookup half of get_or_create (and to its end when the Location exists)
NoaaRowGet(row) ==
    /\ noaa.pc = "rows"
    /\ \E ix \in {NoaaIndexes(noaa.columns)} : \E a \in {NoaaLocArgs(row, ix)} :
        \E g \in {LocGet(locations, a.lat, a.lon)} :
          IF a.exc # "none" THEN NoaaAfterRow(a.exc, temps, sals, 0, 0)
          ELSE IF g.kind = "many" THEN NoaaAfterRow("MultipleObjectsReturned", temps, sals, 0, 0)
          ELSE IF g.kind = "none"
          THEN /\ noaa' = [noaa EXCEPT !.pc = "create",
                             !.pending = [row |-> row, lat |-> a.lat, lon |-> a.lon, name |-> a.name]]
               /\ UNCHANGED <<temps, sals, logs>>
          ELSE \E r \in {NoaaAfterLoc(temps, sals, g.loc, row, ix)} :
                  NoaaAfterRow(r.exc, r.temps, r.sals, r.dt, r.ds)
    /\ UNCHANGED <<settings, task, currents, stats, last, now, sources, locations, nextLocId, nextLogId, cop>>

\* A row whose storage call raises an exception the row handler does not list
\* (a database error): nothing of the row is written
NoaaRowUnexpected ==
    /\ noaa.pc = "rows"
    /\ NoaaAfterRow("DatabaseError", temps, sals, 0, 0)
    /\ UNCHANGED <<settings, task, currents, stats, last, now, sources, locations, nextLocId, nextLogId, cop>>

\* The create half of get_or_create, and the rest of the row
NoaaRowCreate(nd) ==
    /\ noaa.pc = "create"
    /\ \E p \in {noaa.pending} :
        \E c \in {LocCreate(locations, nextLocId, p.lat, p.lon, p.name, "NOAA Network", nd)} :
          /\ locations' = c.locs
          /\ nextLocId' = c.nextId
          /\ IF c.exc # "none" THEN NoaaAfterRow(c.exc, temps, sals, 0, 0)
             ELSE \E r \in {NoaaAfterLoc(temps, sals, c.loc, p.row, NoaaIndexes(noaa.columns))} :
                     NoaaAfterRow(r.exc, r.temps, r.sals, r.dt, r.ds)
    /\ UNCHANGED <<settings, task, currents, stats, last, now, sources, nextLogId, cop>>

\* A success branch that returns without saving the job record
NoaaFinishUnsaved ==
    /\ noaa.pc = "finish"
    /\ sources' = [sources EXCEPT ![NOAA].last_fetch = <<now>>]
    /\ noaa' = NoaaIdle("success", "none", noaa.log)
    /\ UNCHANGED <<settings, task, currents, stats, last, now, locations, nextLocId, temps, sals,
                   logs, nextLogId, cop>>

\* A success branch that leaves the DataSource row alone
NoaaFinishKeepsLastFetch ==
    /\ noaa.pc = "finish"
    /\ logs' = SaveLog(logs, noaa.log,
                       [LogObject(NOAA, noaa) EXCEPT
                          !.status = "success",
                          !.completed_at = <<now>>,
                          !.records_fetched = noaa.nrows,
                          !.records_inserted = noaa.temp_records + noaa.salinity_records])
    /\ noaa' = NoaaIdle("success", "none", noaa.log)
    /\ UNCHANGED <<settings, task, currents, stats, last, now, sources, locations, nextLocId, temps, sals, nextLogId, cop>>

\* _process_buoy_data has returned: the log and the source are updated
NoaaFinish ==
    /\ noaa.pc = "finish"
    /\ logs' = SaveLog(logs, noaa.log,
                       [LogObject(NOAA, noaa) EXCEPT
                          !.status = "success",
                          !.completed_at = <<now>>,
                          !.records_fetched = noaa.nrows,
                          !.records_inserted = noaa.temp_records + noaa.salinity_records])
    /\ sources' = [sources EXCEPT ![NOAA].last_fetch = <<now>>]
    /\ noaa' = NoaaIdle("success", "none", noaa.log)
    /\ UNCHANGED <<settings, task, currents, stats, last, now, locations, nextLocId, temps, sals, nextLogId, cop>>

----------------------------------------------------------------------------
(* CopernicusMarineService *)

\* The rows of the DataFrame after dropna: latitude, longitude, timestamp and "so" cells
CopRows ==
    [lat : {Num(10)}, lon : {Num(5)}, timestamp : {Num(0), Str("bad")},
     so : {Num(35), Num(47), Num(51)}]

CopWideRows ==
    [lat : {Num(10), Num(20)}, lon : {Num(5)}, timestamp : {Num(0), Str("bad")},
     so : {Num(35), Num(47), Num(51)}]

\* row["timestamp"] as a datetime: a pd.Timestamp converts, anything else goes to pd.to_datetime
CopTime(c) ==
    IF c.kind = "num" THEN [exc |-> "none", val |-> c.num]
    ELSE IF c.kind = "str" /\ c.str \in DOMAIN IsoText THEN [exc |-> "none", val |-> IsoText[c.str]]
    ELSE [exc |-> "ValueError", val |-> 0]

\* The arguments of the row's get_or_create: [exc, lat, lon, name]
CopLocArgs(row) ==
    LET none == [exc |-> "none", lat |-> 0, lon |-> 0, name |-> ""] IN
    IF PyFloat(row.lat).exc # "none" THEN [none EXCEPT !.exc = PyFloat(row.lat).exc]
    ELSE IF PyFloat(row.lon).exc # "none" THEN [none EXCEPT !.exc = PyFloat(row.lon).exc]
    ELSE [exc |-> "none", lat |-> PyFloat(row.lat).val, lon |-> PyFloat(row.lon).val,
          name |-> "Grid " \o CellText(row.lat) \o ", " \o CellText(row.lon)]

\* The rest of a row once its Location is resolved: [exc, sals, n]
CopAfterLoc(ss, loc, row) ==
    LET same == [exc |-> "none", sals |-> ss, n |-> 0] IN
    IF CopTime(row.timestamp).exc # "none" THEN [same EXCEPT !.exc = CopTime(row.timestamp).exc]
    ELSE IF PyFloat(row.so).exc # "none" THEN [same EXCEPT !.exc = PyFloat(row.so).exc]
    ELSE IF ~InRange(PyFloat(row.so), SalMin, CopSalMax) THEN same
    ELSE LET u == UpdateOrCreate(ss, loc, COPERNICUS, CopTime(row.timestamp).val, PyFloat(row.so).val)
         IN [exc |-> u.exc, sals |-> u.table, n |-> IF u.exc = "none" THEN 1 ELSE 0]

\* except (ValueError, KeyError): the row is skipped and the loop goes on
CopRowCaught(exc) == exc \in {"ValueError", "KeyError"}

CopIdle(result, exc, log, entry, creds) ==
    [pc |-> "idle", result |-> result, exc |-> exc, log |-> log, started_at |-> 0,
     entry |-> entry, creds |-> creds, nrows |-> 0, i |-> 0, records_inserted |-> 0,
     pending |-> NoPending]

\* The ways in: the service method (management command), or fetch_latest_copernicus_data
\* (which the Celery task fetch_copernicus_data calls with use_sample left False)
CopEntries == {"fetch_salinity_data", "fetch_latest_copernicus_data"}

\* Which credentials are configured
CredSets == [username : BOOLEAN, password : BOOLEAN]

\* __init__: the source row is created or its active flag brought up to date
CopInit(srcs, creds) ==
    LET active == creds.username /\ creds.password
        s == SourceGetOrCreate(srcs, COPERNICUS, active)
    IN [s EXCEPT ![COPERNICUS].is_active = active]

\* A fallback taken when either credential is missing
CopUsesSampleAnyMissing(entry, creds) ==
    entry = "fetch_latest_copernicus_data" /\ (~creds.username \/ ~creds.password)

\* fetch_latest_copernicus_data goes to the sample fallback
CopUsesSample(entry, creds) == entry = "fetch_latest_copernicus_data" /\ ~creds.username

\* fetch_salinity_data returns "skipped"
CopSkips(creds) == ~creds.username \/ ~creds.password

\* One of the sample sites (its coordinates in whole degrees), and the values
\* base_salinity + variation can take (in whole PSU)
sample_locations == {[lat |-> 36, lon |-> -122, name |-> "Monterey Bay"]}
SampleSalinities == {34, 35}

\* _sample_data_fallback: sample Locations and one salinity value per sample hour
\* (the hours of the day before now are the tick now)
RECURSIVE SampleWrite(_, _, _, _, _, _, _)
SampleWrite(todo, locs, nextId, ss, t, v, nd) ==
    IF todo = {} THEN [exc |-> "none", locs |-> locs, nextId |-> nextId, sals |-> ss]
    ELSE LET d == CHOOSE x \in todo : TRUE
             g == LocGetOrCreate(locs, nextId, d.lat, d.lon, d.name, "Copernicus Sample", nd)
             u == UpdateOrCreate(ss, g.loc, COPERNICUS, t, v)
         IN IF g.exc # "none" THEN [exc |-> g.exc, locs |-> g.locs, nextId |-> g.nextId, sals |-> ss]
            ELSE IF u.exc # "none" THEN [exc |-> u.exc, locs |-> g.locs, nextId |-> g.nextId, sals |-> ss]
            ELSE SampleWrite(todo \ {d}, g.locs, g.nextId, u.table, t, v, nd)

\* fetch_latest_copernicus_data without a username: sample data, no job record
CopSample(entry, creds, v, nd) ==
    /\ cop.pc = "idle"
    /\ CopUsesSample(entry, creds)
    /\ sources' = CopInit(sources, creds)
    /\ LET w == SampleWrite(sample_locations, locations, nextLocId, sals, now, v, nd)
       IN /\ locations' = w.locs
          /\ nextLocId' = w.nextId
          /\ sals' = w.sals
          /\ cop' = CopIdle(IF w.exc = "none" THEN "success (sample data)" ELSE "raised",
                            w.exc, 0, entry, creds)
    /\ UNCHANGED <<settings, task, currents, stats, last, now, temps, logs, nextLogId, noaa>>

\* fetch_salinity_data without both credentials: "skipped", no job record
CopSkipped(entry, creds) ==
    /\ cop.pc = "idle"
    /\ ~CopUsesSample(entry, creds)
    /\ CopSkips(creds)
    /\ sources' = CopInit(sources, creds)
    /\ cop' = CopIdle("skipped", "none", 0, entry, creds)
    /\ UNCHANGED <<settings, task, currents, stats, last, now, locations, nextLocId, temps, sals, logs, nextLogId, noaa>>

\* fetch_salinity_data with credentials: the job record is created
CopStart(entry, creds) ==
    /\ cop.pc = "idle"
    /\ ~CopUsesSample(entry, creds)
    /\ ~CopSkips(creds)
    /\ nextLogId <= MaxJobs
    /\ sources' = CopInit(sources, creds)
    /\ logs' = SaveLog(logs, nextLogId, NewLog(COPERNICUS, now))
    /\ nextLogId' = nextLogId + 1
    /\ cop' = [CopIdle("none", "none", nextLogId, "fetch_salinity_data", creds) EXCEPT
                 !.pc = "fetch", !.started_at = now]
    /\ UNCHANGED <<settings, task, currents, stats, last, now, locations, nextLocId, temps, sals, noaa>>

\* The except branch of fetch_salinity_data: record the failure, then raise
CopFailed(exc) ==
    /\ logs' = SaveLog(logs, cop.log,
                       [LogObject(COPERNICUS, cop) EXCEPT !.status = "failed",
                                                          !.completed_at = <<now>>,
                                                          !.error_message = exc])
    /\ cop' = CopIdle("raised", exc, cop.log, cop.entry, cop.creds)

\* _fetch_with_toolbox raises outside its inner handlers (the temporary directory cannot
\* be made or removed)
CopToolboxError ==
    /\ cop.pc = "fetch"
    /\ CopFailed("OSError")
    /\ UNCHANGED <<settings, task, currents, stats, last, now, sources, locations, nextLocId, temps, sals, nextLogId, noaa>>

\* The download fails (client.subset raises, no file arrives, the THREDDS fetch or the
\* NetCDF open raises): the handlers return 0 and the job goes on to its success branch
CopTransferError ==
    /\ cop.pc = "fetch"
    /\ cop' = [cop EXCEPT !.pc = "finish", !.exc = "TransferError"]
    /\ UNCHANGED <<settings, task, currents, stats, last, now, sources, locations, nextLocId, temps, sals, logs, nextLogId, noaa>>

\* The dataset is open: n rows remain after dropna
CopDataset(n) ==
    /\ cop.pc = "fetch"
    /\ cop' = [cop EXCEPT !.nrows = n, !.pc = IF n > 0 THEN "rows" ELSE "finish"]
    /\ UNCHANGED <<settings, task, currents, stats, last, now, sources, locations, nextLocId, temps, sals, logs, nextLogId, noaa>>

\* What a row's outcome does to the loop: go on, or leave through the outer except,
\* which returns the count so far
CopAfterRow(exc, ss, n) ==
    /\ sals' = ss
    /\ IF exc = "none" \/ CopRowCaught(exc)
       THEN cop' = [cop EXCEPT !.i = @ + 1,
                               !.records_inserted = @ + n,
                               !.pending = NoPending,
                               !.pc = IF cop.i + 1 = cop.nrows THEN "finish" ELSE "rows"]
       ELSE cop' = [cop EXCEPT !.pending = NoPending, !.pc = "finish", !.exc = exc]

CopRowGet(row) ==
    /\ cop.pc = "rows"
    /\ \E a \in {CopLocArgs(row)} : \E g \in {LocGet(locations, a.lat, a.lon)} :
          IF a.exc # "none" THEN CopAfterRow(a.exc, sals, 0)
          ELSE IF g.kind = "many" THEN CopAfterRow("MultipleObjectsReturned", sals, 0)
          ELSE IF g.kind = "none"
          THEN /\ cop' = [cop EXCEPT !.pc = "create",
                            !.pending = [row |-> row, lat |-> a.lat, lon |-> a.lon, name |-> a.name]]
               /\ UNCHANGED sals
          ELSE \E r \in {CopAfterLoc(sals, g.loc, row)} : CopAfterRow(r.exc, r.sals, r.n)
    /\ UNCHANGED <<settings, task, currents, stats, last, now, sources, locations, nextLocId, temps, logs, nextLogId, noaa>>

\* A row whose storage call raises an exception the row handler does not list
\* (a database error): nothing of the row is written
CopRowUnexpected ==
    /\ cop.pc = "rows"
    /\ CopAfterRow("DatabaseError", sals, 0)
    /\ UNCHANGED <<settings, task, currents, stats, last, now, sources, locations, nextLocId, temps, logs, nextLogId, noaa>>

CopRowCreate(nd) ==
    /\ cop.pc = "create"
    /\ \E p \in {cop.pending} :
        \E c \in {LocCreate(locations, nextLocId, p.lat, p.lon, p.name, "Copernicus Global", nd)} :
          /\ locations' = c.locs
          /\ nextLocId' = c.nextId
          /\ IF c.exc # "none" THEN CopAfterRow(c.exc, sals, 0)
             ELSE \E r \in {CopAfterLoc(sals, c.loc, p.row)} : CopAfterRow(r.exc, r.sals, r.n)
    /\ UNCHANGED <<settings, task, currents, stats, last, now, sources, temps, logs, nextLogId, noaa>>

\* _fetch_with_toolbox has returned a count: the log and the source are updated
CopFinish ==
    /\ cop.pc = "finish"
    /\ logs' = SaveLog(logs, cop.log,
                       [LogObject(COPERNICUS, cop) EXCEPT
                          !.status = "success",
                          !.completed_at = <<now>>,
                          !.records_fetched = cop.records_inserted,
                          !.records_inserted = cop.records_inserted])
    /\ sources' = [sources EXCEPT ![COPERNICUS].last_fetch = <<now>>]
    /\ cop' = CopIdle("success", cop.exc, cop.log, cop.entry, cop.creds)
    /\ UNCHANGED <<settings, task, currents, stats, last, now, locations, nextLocId, temps, sals, nextLogId, noaa>>

----------------------------------------------------------------------------
(* Whole invocations, run from start to end without another writer in between.
   An intermediate result is bound as the one element of a set, which computes it once. *)

\* The batch of the latest whole invocation, and whether it is the batch of the one before
NoBatch == [src |-> "none", columns |-> <<>>, noaaRows |-> <<>>, copRows |-> <<>>, again |-> FALSE]

\* No sweep has returned yet. at: the clock reading of the call; first: the number of rows
\* the call before removed, when this call repeats it (history)
NoStats ==
    [at |-> 0, first |-> 0, temperature_deleted |-> 0, salinity_deleted |-> 0,
     currents_deleted |-> 0, logs_deleted |-> 0, cutoff_date |-> 0]

\* No task has been scheduled yet
NoTask == [pc |-> "none", retries |-> 0, attempts |-> 0, countdown |-> 0, exc |-> "none"]

\* The Location and observation tables
DB == [locations |-> locations, nextLocId |-> nextLocId, temps |-> temps, sals |-> sals]

\* The body of the NOAA row loop for one row: [exc, db, dt, ds]
NoaaRow(db, row, ix, nd) ==
    LET a == NoaaLocArgs(row, ix) IN
    IF a.exc # "none" THEN [exc |-> a.exc, db |-> db, dt |-> 0, ds |-> 0]
    ELSE CHOOSE out \in
           { IF g.exc # "none"
             THEN [exc |-> g.exc, db |-> [db EXCEPT !.locations = g.locs, !.nextLocId = g.nextId],
                   dt |-> 0, ds |-> 0]
             ELSE CHOOSE res \in
                    { [exc |-> r.exc,
                       db |-> [locations |-> g.locs, nextLocId |-> g.nextId,
                               temps |-> r.temps, sals |-> r.sals],
                       dt |-> r.dt, ds |-> r.ds]
                      : r \in {NoaaAfterLoc(db.temps, db.sals, g.loc, row, ix)} } : TRUE
             : g \in {LocGetOrCreate(db.locations, db.nextLocId, a.lat, a.lon, a.name,
                                     "NOAA Network", nd)} } : TRUE

\* The NOAA row loop from row i on; it ends at the first exception the row handler lets through
RECURSIVE NoaaLoop(_, _, _, _, _)
NoaaLoop(acc, rows, ix, i, nd) ==
    IF i > Len(rows) THEN acc
    ELSE CHOOSE out \in
           { IF r.exc # "none" /\ ~NoaaRowCaught(r.exc)
             THEN [exc |-> r.exc, db |-> r.db,
                   temp_records |-> acc.temp_records + r.dt,
                   salinity_records |-> acc.salinity_records + r.ds]
             ELSE NoaaLoop([exc |-> "none", db |-> r.db,
                            temp_records |-> acc.temp_records + r.dt,
                            salinity_records |-> acc.salinity_records + r.ds],
                           rows, ix, i + 1, nd)
             : r \in {NoaaRow(acc.db, rows[i], ix, nd)} } : TRUE

\* A processing that undoes its writes when it raises
ProcessBuoyDataAtomic(db, columns, rows, nd) ==
    LET start == [exc |-> "none", db |-> db, temp_records |-> 0, salinity_records |-> 0] IN
    IF ~NoaaIndexes(columns).ok THEN start
    ELSE CHOOSE out \in
           {IF r.exc = "none" THEN r ELSE [r EXCEPT !.db = db] :
              r \in {NoaaLoop(start, rows, NoaaIndexes(columns), 1, nd)}} : TRUE

\* A processing that counts the rows read on top of the observations stored
ProcessBuoyDataCountsRows(db, columns, rows, nd) ==
    LET start == [exc |-> "none", db |-> db, temp_records |-> 0, salinity_records |-> 0] IN
    IF ~NoaaIndexes(columns).ok THEN start
    ELSE CHOOSE out \in
           {[r EXCEPT !.temp_records = @ + Len(rows)] :
              r \in {NoaaLoop(start, rows, NoaaIndexes(columns), 1, nd)}} : TRUE

\* _process_buoy_data(data): [exc, db, temp_records, salinity_records]
ProcessBuoyData(db, columns, rows, nd) ==
    LET start == [exc |-> "none", db |-> db, temp_records |-> 0, salinity_records |-> 0] IN
    IF ~NoaaIndexes(columns).ok THEN start
    ELSE NoaaLoop(start, rows, NoaaIndexes(columns), 1, nd)

\* fetch_buoy_data from its first line to its return or raise
FetchBuoyDataBody(columns, rows, nd) ==
    /\ noaa.pc = "idle"
    /\ cop.pc = "idle"
    /\ \E r \in {ProcessBuoyData(DB, columns, rows, nd)} :
          LET src == SourceGetOrCreate(sources, NOAA, TRUE) IN
          /\ locations' = r.db.locations
          /\ nextLocId' = r.db.nextLocId
          /\ temps' = r.db.temps
          /\ sals' = r.db.sals
          /\ IF r.exc = "none"
             THEN /\ logs' = SaveLog(logs, nextLogId,
                                     [NewLog(NOAA, now) EXCEPT
                                        !.status = "success",
                                        !.completed_at = <<now>>,
                                        !.records_fetched = Len(rows),
                                        !.records_inserted = r.temp_records + r.salinity_records])
                  /\ sources' = [src EXCEPT ![NOAA].last_fetch = <<now>>]
                  /\ noaa' = NoaaIdle("success", "none", nextLogId)
             ELSE /\ logs' = SaveLog(logs, nextLogId,
                                     [NewLog(NOAA, now) EXCEPT
                                        !.status = "failed",
                                        !.completed_at = <<now>>,
                                        !.error_message = r.exc])
                  /\ sources' = src
                  /\ noaa' = NoaaIdle("raised", r.exc, nextLogId)
    /\ nextLogId' = nextLogId + 1
    /\ last' = [src |-> NOAA, columns |-> columns, noaaRows |-> rows, copRows |-> <<>>,
                again |-> (last.src = NOAA /\ last.columns = columns /\ last.noaaRows = rows)]
    /\ UNCHANGED <<settings, currents, stats, now, cop>>

\* An invocation of fetch_buoy_data outside the scheduled task
FetchBuoyData(columns, rows, nd) ==
    /\ nextLogId <= MaxJobs
    /\ FetchBuoyDataBody(columns, rows, nd)
    /\ UNCHANGED task

\* The body of the Copernicus row loop for one row: [exc, db, n]
CopRow(db, row, nd) ==
    LET a == CopLocArgs(row) IN
    IF a.exc # "none" THEN [exc |-> a.exc, db |-> db, n |-> 0]
    ELSE CHOOSE out \in
           { IF g.exc # "none"
             THEN [exc |-> g.exc, db |-> [db EXCEPT !.locations = g.locs, !.nextLocId = g.nextId],
                   n |-> 0]
             ELSE CHOOSE res \in
                    { [exc |-> r.exc,
                       db |-> [db EXCEPT !.locations = g.locs, !.nextLocId = g.nextId,
                                         !.sals = r.sals],
                       n |-> r.n]
                      : r \in {CopAfterLoc(db.sals, g.loc, row)} } : TRUE
             : g \in {LocGetOrCreate(db.locations, db.nextLocId, a.lat, a.lon, a.name,
                                     "Copernicus Global", nd)} } : TRUE

\* The Copernicus row loop from row i on: [db, records_inserted]; the outer handler ends it
\* at the first exception the row handler lets through and returns the count so far
RECURSIVE CopLoop(_, _, _, _)
CopLoop(acc, rows, i, nd) ==
    IF i > Len(rows) THEN acc
    ELSE CHOOSE out \in
           { IF r.exc # "none" /\ ~CopRowCaught(r.exc)
             THEN [db |-> r.db, records_inserted |-> acc.records_inserted + r.n]
             ELSE CopLoop([db |-> r.db, records_inserted |-> acc.records_inserted + r.n],
                          rows, i + 1, nd)
             : r \in {CopRow(acc.db, rows[i], nd)} } : TRUE

\* fetch_salinity_data with both credentials, from its first line to its return
FetchSalinityData(rows, nd) ==
    /\ noaa.pc = "idle"
    /\ cop.pc = "idle"
    /\ nextLogId <= MaxJobs
    /\ \E r \in {CopLoop([db |-> DB, records_inserted |-> 0], rows, 1, nd)} :
          LET creds == [username |-> TRUE, password |-> TRUE] IN
          /\ locations' = r.db.locations
          /\ nextLocId' = r.db.nextLocId
          /\ sals' = r.db.sals
          /\ logs' = SaveLog(logs, nextLogId,
                             [NewLog(COPERNICUS, now) EXCEPT
                                !.status = "success",
                                !.completed_at = <<now>>,
                                !.records_fetched = r.records_inserted,
                                !.records_inserted = r.records_inserted])
          /\ sources' = [CopInit(sources, creds) EXCEPT ![COPERNICUS].last_fetch = <<now>>]
          /\ cop' = CopIdle("success", "none", nextLogId, "fetch_salinity_data", creds)
    /\ nextLogId' = nextLogId + 1
    /\ last' = [src |-> COPERNICUS, columns |-> <<>>, noaaRows |-> <<>>, copRows |-> rows,
                again |-> (last.src = COPERNICUS /\ last.copRows = rows)]
    /\ UNCHANGED <<settings, task, currents, stats, now, temps, noaa>>

\* The batches of at most MaxRows rows drawn from a set of rows
Batches(rows) == UNION {[1..n -> rows] : n \in 0..MaxRows}

\* Rows whose coordinates and timestamp parse
NoaaBatchRows(columns) ==
    {r \in NoaaWideRows(columns) :
        /\ Len(r) = Len(columns)
        /\ \A k \in 1..Len(r) : r[k] \notin {Str("abc"), Str("bad"), NullCell}}

CopBatchRows == {r \in CopWideRows : r.timestamp = Num(0)}

\* Tables for the validation of the quantity cells and for the column lookup
QuantityLayout == <<"station", "latitude", "longitude", "time", "wtmp", "sal">>
AliasLayout ==
    <<"sst", "station", "latitude", "longitude", "time", "water_temperature",
      "sea_surface_temperature", "psu", "salinity">>
BareLayout == <<"time", "longitude", "latitude", "station">>
BuoyLayout == <<"station", "latitude", "longitude", "time", "wtmp">>
ReorderedLayout == <<"water_temperature", "time", "longitude", "sst", "latitude", "station">>

TableLayouts == {QuantityLayout, AliasLayout, BareLayout, BuoyLayout, ReorderedLayout}

\* The cells of a column of such a table
TableCells(columns, name) ==
    CASE name = "station"   -> {Str("S1")}
      [] name = "latitude"  -> IF columns = BuoyLayout
                               THEN {Num(10), Num(20), Num(95), Str("abc"), NullCell}
                               ELSE {Num(10)}
      [] name = "longitude" -> {Num(5)}
      [] name = "time"      -> IF columns = BuoyLayout THEN {Str("T0"), Str("bad")} ELSE {Str("T0")}
      [] name = "wtmp"      -> IF columns = BuoyLayout
                               THEN {Num(20), Str("NaN")}
                               ELSE {Num(-6), Num(-5), Num(40), Num(41), Str("abc"), Str(""),
                                     NullCell, Str("nan")}
      [] name = "sal"       -> {Num(-1), Num(0), Num(45), Num(46), Str("Null")}
      [] name = "sea_surface_temperature" -> {Num(21)}
      [] name = "sst"                     -> {Num(22)}
      [] name = "water_temperature"       -> {Num(23)}
      [] name = "salinity"                -> {Num(31)}
      [] name = "psu"                     -> {Num(33)}
      [] OTHER -> {NullCell}

RECURSIVE TableRowsUpTo(_, _)
TableRowsUpTo(columns, k) ==
    IF k = 0 THEN {<<>>}
    ELSE {Append(r, c) : r \in TableRowsUpTo(columns, k - 1), c \in TableCells(columns, columns[k])}

TableRows == [columns \in TableLayouts |-> TableRowsUpTo(columns, Len(columns))]

----------------------------------------------------------------------------
(* The system *)

\* Time passes. A tick is far longer than an invocation: the clock advances between
\* invocations, not within one.
Tick ==
    /\ now < MaxNow
    /\ noaa.pc = "idle"
    /\ cop.pc = "idle"
    /\ now' = now + 1
    /\ UNCHANGED <<settings, task, currents, stats, last, sources, locations, nextLocId, temps, sals, logs, nextLogId, noaa, cop>>

Init ==
    /\ now = 0
    /\ sources = <<>>
    /\ locations = {}
    /\ nextLocId = 1
    /\ temps = {}
    /\ sals = {}
    /\ logs = <<>>
    /\ nextLogId = 1
    /\ noaa = NoaaIdle("none", "none", 0)
    /\ cop = CopIdle("none", "none", 0, "fetch_salinity_data", [username |-> TRUE, password |-> TRUE])
    /\ last = NoBatch
    /\ currents = {}
    /\ stats = NoStats
    /\ task = NoTask
    /\ settings = <<>>

\* The two job runners, each running one invocation at a time, with credentials configured
Next ==
    \/ Tick
    \/ NoaaStart
    \/ NoaaFetchError
    \/ \E columns \in NoaaLayouts, n \in 0..MaxRows : NoaaResponse(columns, n)
    \/ \E row \in NoaaRows(noaa.columns) : NoaaRowGet(row)
    \/ NoaaRowUnexpected
    \/ \E nd \in BOOLEAN : NoaaRowCreate(nd)
    \/ NoaaFinish
    \/ \E entry \in CopEntries, creds \in CredSets : CopStart(entry, creds)
    \/ CopToolboxError
    \/ CopTransferError
    \/ \E n \in 0..MaxRows : CopDataset(n)
    \/ \E row \in CopRows : CopRowGet(row)
    \/ CopRowUnexpected
    \/ \E nd \in BOOLEAN : CopRowCreate(nd)
    \/ CopFinish

Spec == Init /\ [][Next]_vars

\* The worker process is terminated while an invocation is in progress: the invocation
\* runs no further step and its job record stays as it is
NoaaAbandon ==
    /\ noaa.pc # "idle"
    /\ noaa' = NoaaIdle("abandoned", "none", noaa.log)
    /\ UNCHANGED <<settings, task, currents, stats, last, now, sources, locations, nextLocId,
                   temps, sals, logs, nextLogId, cop>>

CopAbandon ==
    /\ cop.pc # "idle"
    /\ cop' = CopIdle("abandoned", "none", cop.log, cop.entry, cop.creds)
    /\ UNCHANGED <<settings, task, currents, stats, last, now, sources, locations, nextLocId,
                   temps, sals, logs, nextLogId, noaa>>

\* The rows of the invocations that are followed to their end: one that is stored, one
\* that is skipped and one that fails the job; one that is stored and one that ends the loop
LiveNoaaRows ==
    {<<Str("S1"), lat, Num(5), Str("T0"), Num(20)>> : lat \in {Num(10), Str("abc"), NullCell}}
LiveCopRows == {r \in CopRows : r.so = Num(35)}

\* The steps of a NOAA invocation in progress, and of a Copernicus one
NoaaRun ==
    \/ NoaaFetchError
    \/ \E n \in 0..MaxRows : NoaaResponse(BuoyLayout, n)
    \/ \E row \in LiveNoaaRows : NoaaRowGet(row)
    \/ NoaaRowUnexpected
    \/ \E nd \in BOOLEAN : NoaaRowCreate(nd)
    \/ NoaaFinish

CopRun ==
    \/ CopToolboxError
    \/ CopTransferError
    \/ \E n \in 0..MaxRows : CopDataset(n)
    \/ \E row \in LiveCopRows : CopRowGet(row)
    \/ CopRowUnexpected
    \/ \E nd \in BOOLEAN : CopRowCreate(nd)
    \/ CopFinish

\* The two job runners with process termination. A process that is not terminated keeps
\* running: its loops are over the rows of the batch and its request has a timeout.
NextLive ==
    \/ NoaaStart
    \/ NoaaRun
    \/ NoaaAbandon
    \/ \E entry \in CopEntries, creds \in CredSets : CopStart(entry, creds)
    \/ CopRun
    \/ CopAbandon

SpecLive == Init /\ [][NextLive]_vars /\ WF_vars(NoaaRun) /\ WF_vars(CopRun)

\* Invocations one after the other (no two in progress at once), over two coordinates
NextSeq ==
    \/ (cop.pc = "idle" /\ NoaaStart)
    \/ NoaaFetchError
    \/ \E columns \in NoaaLayouts, n \in 0..MaxRows : NoaaResponse(columns, n)
    \/ \E row \in NoaaWideRows(noaa.columns) : NoaaRowGet(row)
    \/ NoaaRowUnexpected
    \/ \E nd \in BOOLEAN : NoaaRowCreate(nd)
    \/ NoaaFinish
    \/ \E entry \in CopEntries, creds \in CredSets : (noaa.pc = "idle" /\ CopStart(entry, creds))
    \/ CopToolboxError
    \/ CopTransferError
    \/ \E n \in 0..MaxRows : CopDataset(n)
    \/ \E row \in CopWideRows : CopRowGet(row)
    \/ CopRowUnexpected
    \/ \E nd \in BOOLEAN : CopRowCreate(nd)
    \/ CopFinish

SpecSeq == Init /\ [][NextSeq]_vars

\* The Copernicus entry points under every configuration of the credentials
NextEntry ==
    \/ \E entry \in CopEntries, creds \in CredSets, v \in SampleSalinities, nd \in BOOLEAN :
          CopSample(entry, creds, v, nd)
    \/ \E entry \in CopEntries, creds \in CredSets : CopSkipped(entry, creds)
    \/ \E entry \in CopEntries, creds \in CredSets : CopStart(entry, creds)
    \/ CopToolboxError
    \/ CopTransferError
    \/ \E n \in 0..MaxRows : CopDataset(n)
    \/ \E row \in CopRows : CopRowGet(row)
    \/ CopRowUnexpected
    \/ \E nd \in BOOLEAN : CopRowCreate(nd)
    \/ CopFinish

SpecEntry == Init /\ [][NextEntry]_vars

\* Whole invocations one after the other, each over a batch of rows that parse
NextBatch ==
    \/ \E columns \in NoaaLayouts, nd \in BOOLEAN :
          \E rows \in Batches(NoaaBatchRows(columns)) : FetchBuoyData(columns, rows, nd)
    \/ \E rows \in Batches(CopBatchRows), nd \in BOOLEAN : FetchSalinityData(rows, nd)

SpecBatch == Init /\ [][NextBatch]_vars

----------------------------------------------------------------------------
(* The retention sweep (cleanup_expired_data); the clock counts days *)

DATA_RETENTION_DAYS == 365
LogRetentionDays == 90

\* settings.DATA_INGESTION.get(key, default)
SettingsGet(s, key, default) == IF key \in DOMAIN s THEN s[key] ELSE default

\* A filter that also matches the rows at the cut-off
ExpiredInclusive(table, cutoff) == {o \in table : o.timestamp <= cutoff}

\* <Observation>.objects.filter(timestamp__lt=cutoff_date)
Expired(table, cutoff) == {o \in table : o.timestamp < cutoff}

\* IngestionLog.objects.filter(started_at__lt=log_cutoff): the ids of the rows
ExpiredLogs(lg, cutoff) == {id \in DOMAIN lg : lg[id].started_at < cutoff}

\* A delete that removes no row
DeleteNothing(table, rows) == table

\* QuerySet.delete(): the table without the rows (the count is the number of rows)
Delete(table, rows) == table \ rows

\* The number of rows the latest sweep reported in all
TotalDeleted(st) ==
    st.temperature_deleted + st.salinity_deleted + st.currents_deleted + st.logs_deleted

\* A sweep that also removes the Locations left without an observation
CleanupWithLocations ==
    LET cutoff_date == now - SettingsGet(settings, "DATA_RETENTION_DAYS", DATA_RETENTION_DAYS)
        log_cutoff == now - LogRetentionDays
        repeats == last.src = "sweep" /\ stats.at = now
    IN /\ noaa.pc = "idle"
       /\ cop.pc = "idle"
       /\ temps' = Delete(temps, Expired(temps, cutoff_date))
       /\ sals' = Delete(sals, Expired(sals, cutoff_date))
       /\ currents' = Delete(currents, Expired(currents, cutoff_date))
       /\ locations' = {l \in locations :
                          \/ \E o \in temps' : o.location = l.id
                          \/ \E o \in sals' : o.location = l.id
                          \/ \E o \in currents' : o.location = l.id}
       /\ logs' = [id \in Delete(DOMAIN logs, ExpiredLogs(logs, log_cutoff)) |-> logs[id]]
       /\ stats' = [at |-> now,
                    first |-> IF repeats THEN TotalDeleted(stats) ELSE 0,
                    temperature_deleted |-> Cardinality(Expired(temps, cutoff_date)),
                    salinity_deleted |-> Cardinality(Expired(sals, cutoff_date)),
                    currents_deleted |-> Cardinality(Expired(currents, cutoff_date)),
                    logs_deleted |-> Cardinality(ExpiredLogs(logs, log_cutoff)),
                    cutoff_date |-> cutoff_date]
       /\ last' = [NoBatch EXCEPT !.src = "sweep", !.again = repeats]
       /\ UNCHANGED <<settings, task, now, sources, nextLocId, nextLogId, noaa, cop>>

\* cleanup_expired_data from its first line to its return
CleanupExpiredData ==
    LET cutoff_date == now - SettingsGet(settings, "DATA_RETENTION_DAYS", DATA_RETENTION_DAYS)
        log_cutoff == now - LogRetentionDays
        repeats == last.src = "sweep" /\ stats.at = now
    IN /\ noaa.pc = "idle"
       /\ cop.pc = "idle"
       /\ temps' = Delete(temps, Expired(temps, cutoff_date))
       /\ sals' = Delete(sals, Expired(sals, cutoff_date))
       /\ currents' = Delete(currents, Expired(currents, cutoff_date))
       /\ logs' = [id \in Delete(DOMAIN logs, ExpiredLogs(logs, log_cutoff)) |-> logs[id]]
       /\ stats' = [at |-> now,
                    first |-> IF repeats THEN TotalDeleted(stats) ELSE 0,
                    temperature_deleted |-> Cardinality(Expired(temps, cutoff_date)),
                    salinity_deleted |-> Cardinality(Expired(sals, cutoff_date)),
                    currents_deleted |-> Cardinality(Expired(currents, cutoff_date)),
                    logs_deleted |-> Cardinality(ExpiredLogs(logs, log_cutoff)),
                    cutoff_date |-> cutoff_date]
       /\ last' = [NoBatch EXCEPT !.src = "sweep", !.again = repeats]
       /\ UNCHANGED <<settings, task, now, sources, locations, nextLocId, nextLogId, noaa, cop>>

\* cleanup_expired_data raises after k of its deletes: the deletes made stay, nothing is returned
CleanupRaises(k) ==
    LET cutoff_date == now - SettingsGet(settings, "DATA_RETENTION_DAYS", DATA_RETENTION_DAYS) IN
    /\ noaa.pc = "idle"
    /\ cop.pc = "idle"
    /\ temps' = IF k >= 1 THEN Delete(temps, Expired(temps, cutoff_date)) ELSE temps
    /\ sals' = IF k >= 2 THEN Delete(sals, Expired(sals, cutoff_date)) ELSE sals
    /\ currents' = IF k >= 3 THEN Delete(currents, Expired(currents, cutoff_date)) ELSE currents
    /\ last' = [NoBatch EXCEPT !.src = "sweep raised"]
    /\ UNCHANGED <<settings, task, stats, now, sources, locations, nextLocId, logs, nextLogId, noaa, cop>>

\* The admin site adds a CurrentObservation (no ingestion job writes this table)
AdminAddCurrent(ts) ==
    /\ noaa.pc = "idle"
    /\ cop.pc = "idle"
    /\ \E l \in locations, name \in DOMAIN sources :
          /\ ObsFilter(currents, l.id, name, ts) = {}
          /\ currents' = currents \cup {[location |-> l.id, source |-> name, timestamp |-> ts]}
    /\ last' = [NoBatch EXCEPT !.src = "admin"]
    /\ UNCHANGED <<settings, task, stats, now, sources, locations, nextLocId, temps, sals, logs, nextLogId,
                   noaa, cop>>

\* The days at which the clock is read: around the two retention periods
Instants ==
    {0, 1, LogRetentionDays, LogRetentionDays + 1, DATA_RETENTION_DAYS + 1, DATA_RETENTION_DAYS + 2}

\* Time passes between two calls
Elapse(t) ==
    /\ noaa.pc = "idle"
    /\ cop.pc = "idle"
    /\ t > now
    /\ now' = t
    /\ UNCHANGED <<settings, task, currents, stats, last, sources, locations, nextLocId, temps, sals, logs,
                   nextLogId, noaa, cop>>

\* The rows of the batches the sweep is run against: one buoy, measured at day 0 and day 1
SweepRows ==
    {<<Str("S1"), Num(10), Num(5), Str(t), Num(20), Num(35)>> : t \in DOMAIN IsoText}

\* NOAA invocations, additions of the admin site and sweeps, one after the other, as time passes
NextSweep ==
    \/ \E rows \in Batches(SweepRows) : FetchBuoyData(QuantityLayout, rows, TRUE)
    \/ \E ts \in 0..1 : AdminAddCurrent(ts)
    \/ \E t \in Instants : Elapse(t)
    \/ CleanupExpiredData
    \/ \E k \in 0..3 : CleanupRaises(k)

SpecSweep == Init /\ [][NextSweep]_vars

\* The retention windows a deployment may configure: each key absent or set to a number of days
ConfiguredDays == {1}
RetentionKeys == {"DATA_RETENTION_DAYS", "LOG_RETENTION_DAYS"}
ConfiguredSettings == UNION {[keys -> ConfiguredDays] : keys \in SUBSET RetentionKeys}

\* The empty database under any of those settings
InitConfigured ==
    \E s \in ConfiguredSettings :
       /\ now = 0
       /\ sources = <<>>
       /\ locations = {}
       /\ nextLocId = 1
       /\ temps = {}
       /\ sals = {}
       /\ logs = <<>>
       /\ nextLogId = 1
       /\ noaa = NoaaIdle("none", "none", 0)
       /\ cop = CopIdle("none", "none", 0, "fetch_salinity_data", [username |-> TRUE, password |-> TRUE])
       /\ last = NoBatch
       /\ currents = {}
       /\ stats = NoStats
       /\ task = NoTask
       /\ settings = s

\* NOAA invocations and sweeps as time passes
NextConfigured ==
    \/ \E rows \in Batches(SweepRows) : FetchBuoyData(QuantityLayout, rows, TRUE)
    \/ \E t \in Instants : Elapse(t)
    \/ CleanupExpiredData

SpecConfigured == InitConfigured /\ [][NextConfigured]_vars

----------------------------------------------------------------------------
(* The scheduled task fetch_noaa_data and its retries *)

countdown == 300
max_retries == 3

\* A retry that is never refused
RetriesNeverExceeded(retries, max) == FALSE

\* Task.retry: the retry is refused, and exc raised, once the retries made reach max_retries
RetriesExceeded(retries, max) == retries + 1 > max

\* The scheduler sends the task
TaskSchedule ==
    /\ task.pc = "none"
    /\ task' = [NoTask EXCEPT !.pc = "queued"]
    /\ UNCHANGED <<settings, currents, stats, last, now, sources, locations, nextLocId, temps, sals, logs,
                   nextLogId, noaa, cop>>

\* The except branch of the task: raise self.retry(exc=exc, countdown=300, max_retries=3)
TaskRetry(exc) ==
    IF RetriesExceeded(task.retries, max_retries)
    THEN [task EXCEPT !.pc = "failed", !.attempts = @ + 1, !.exc = exc]
    ELSE [task EXCEPT !.pc = "retry", !.attempts = @ + 1, !.retries = @ + 1,
                      !.countdown = countdown, !.exc = exc]

\* A worker runs the task: fetch_latest_noaa_data() returns, or raises into the except branch
TaskAttempt(columns, rows, nd) ==
    /\ task.pc \in {"queued", "retry"}
    /\ FetchBuoyDataBody(columns, rows, nd)
    /\ task' = IF noaa'.result = "success"
               THEN [task EXCEPT !.pc = "succeeded", !.attempts = @ + 1, !.exc = "none"]
               ELSE TaskRetry(noaa'.exc)

\* A worker runs the task and the import or the construction of the service raises,
\* before fetch_buoy_data creates a job record
TaskAttemptEarlyError ==
    /\ task.pc \in {"queued", "retry"}
    /\ task' = TaskRetry("ImportError")
    /\ UNCHANGED <<settings, currents, stats, last, now, sources, locations, nextLocId, temps, sals, logs,
                   nextLogId, noaa, cop>>

\* The rows of the batches the task fetches: two that are stored and one that fails the job
TaskRows ==
    {<<Str("S1"), Num(10), Num(5), Str(t), Num(20)>> : t \in DOMAIN IsoText}
       \cup {<<Str("S1"), NullCell, Num(5), Str("T0"), Num(20)>>}

\* One scheduled task from its sending to its last attempt
NextTask ==
    \/ TaskSchedule
    \/ \E rows \in Batches(TaskRows), nd \in BOOLEAN : TaskAttempt(BuoyLayout, rows, nd)
    \/ TaskAttemptEarlyError

SpecTask == Init /\ [][NextTask]_vars

\* NOAA invocations that process termination may abandon at any step, followed by the
\* attempts of a scheduled task (each fetches one row) and sweeps, as time passes
NextAbandon ==
    \/ NoaaStart
    \/ NoaaRun
    \/ NoaaAbandon
    \/ TaskSchedule
    \/ \E row \in LiveNoaaRows : TaskAttempt(BuoyLayout, <<row>>, TRUE)
    \/ \E t \in {1, LogRetentionDays + 1} : Elapse(t)
    \/ CleanupExpiredData

SpecAbandon == Init /\ [][NextAbandon]_vars

\* The source the seed command writes under
SAMPLE == "Sample Data"

\* locations_data of seed_sample_data: one of its sites, at the coordinate the buoy of the
\* batches reports (in whole degrees), with the whole part of its base values
locations_data ==
    {[name |-> "California Coast", latitude |-> 10, longitude |-> 5, region |-> "Pacific Ocean",
      temp_base |-> 15, salinity_base |-> 33]}

\* Location.objects.get(name=..., latitude=..., longitude=...)
LocGetNamed(locs, name, lat, lon) ==
    LET m == {l \in LocFilter(locs, lat, lon) : l.name = name} IN
    IF m = {} THEN [kind |-> "none", loc |-> 0]
    ELSE IF Cardinality(m) = 1 THEN [kind |-> "one", loc |-> (CHOOSE l \in m : TRUE).id]
    ELSE [kind |-> "many", loc |-> 0]

\* Location.objects.get_or_create(name=..., latitude=..., longitude=..., defaults={region}):
\* the lookup is by name and coordinates, the insert leaves the depth NULL; on
\* IntegrityError the same lookup is made again and the error re-raised when it finds nothing
LocGetOrCreateNamed(locs, nextId, lat, lon, name, region, nd) ==
    LET g == LocGetNamed(locs, name, lat, lon) IN
    IF g.kind = "one" THEN [exc |-> "none", loc |-> g.loc, locs |-> locs, nextId |-> nextId]
    ELSE IF g.kind = "many"
    THEN [exc |-> "MultipleObjectsReturned", loc |-> 0, locs |-> locs, nextId |-> nextId]
    ELSE IF LocUniqueViolation(locs, lat, lon, NullVal, nd)
    THEN [exc |-> "IntegrityError", loc |-> 0, locs |-> locs, nextId |-> nextId]
    ELSE [exc |-> "none", loc |-> nextId, nextId |-> nextId + 1,
          locs |-> locs \cup {[id |-> nextId, latitude |-> lat, longitude |-> lon,
                               depth_meters |-> NullVal, name |-> name, region |-> region]}]

\* <Observation>.objects.create(...): an insert, refused when the key is stored
ObsCreate(table, loc, src, ts, val) ==
    IF ObsFilter(table, loc, src, ts) # {} THEN [exc |-> "IntegrityError", table |-> table]
    ELSE [exc |-> "none", table |-> table \cup {ObsRow(loc, src, ts, val)}]

\* The seed_sample_data command with --points-per-day 1 and --days 0 or 1: the source,
\* the Location of the site, then one temperature and one salinity per day, the first
\* of them `days` before now. The command has no transaction: what it wrote before an
\* exception stays.
SeedSampleData(days, nd) ==
    /\ noaa.pc = "idle"
    /\ cop.pc = "idle"
    /\ sources' = SourceGetOrCreate(sources, SAMPLE, TRUE)
    /\ \E d \in locations_data :
        \E g \in {LocGetOrCreateNamed(locations, nextLocId, d.latitude, d.longitude, d.name,
                                      d.region, nd)} :
          /\ locations' = g.locs
          /\ nextLocId' = g.nextId
          /\ IF g.exc # "none" \/ days = 0
             THEN /\ UNCHANGED <<temps, sals>>
                  /\ last' = [NoBatch EXCEPT
                                !.src = IF g.exc = "none" THEN "seed" ELSE "seed raised"]
             ELSE \E t \in {ObsCreate(temps, g.loc, SAMPLE, now - days, d.temp_base)} :
                  \E u \in {ObsCreate(sals, g.loc, SAMPLE, now - days, d.salinity_base)} :
                    /\ temps' = t.table
                    /\ sals' = IF t.exc = "none" THEN u.table ELSE sals
                    /\ last' = [NoBatch EXCEPT
                                  !.src = IF t.exc = "none" /\ u.exc = "none"
                                          THEN "seed" ELSE "seed raised"]
    /\ UNCHANGED <<settings, task, currents, stats, now, logs, nextLogId, noaa, cop>>

\* The rows of the batches fetched beside the seed command: one buoy, every cell well formed
SeedRows ==
    {<<Str("S1"), Num(10), Num(5), Str(t), Num(20)>> : t \in DOMAIN IsoText}

\* NOAA invocations and runs of the seed command, in any order
NextSeed ==
    \/ \E rows \in Batches(SeedRows), nd \in BOOLEAN : FetchBuoyData(BuoyLayout, rows, nd)
    \/ \E days \in 0..1, nd \in BOOLEAN : SeedSampleData(days, nd)

SpecSeed == Init /\ [][NextSeed]_vars

\* One NOAA invocation on an empty database, over every table of the validation layouts
\* (no Location is stored beforehand, so that no insert of the invocation can be refused)
NextTable ==
    /\ logs = <<>>
    /\ \E columns \in TableLayouts :
          \E rows \in Batches(TableRows[columns]) : FetchBuoyData(columns, rows, TRUE)

SpecTable == Init /\ [][NextTable]_vars

----------------------------------------------------------------------------
(* Properties *)

Terminal == {"success", "failed"}

\* Exceptions that parsing a latitude, longitude or timestamp cell raises
ParseFailures == {"ValueError", "IndexError", "TypeError", "AttributeError"}

\* Exceptions of a row that are not parse or range failures
UnexpectedRowExc == {"DatabaseError", "MultipleObjectsReturned", "IntegrityError"}

\* C1 (as claimed): a NOAA invocation whose table lacks a mandatory column ends with its
\* job record failed, zero inserted records and no row processed.
C1_MissingColumnFailsJob ==
    [][(/\ noaa.pc # "idle"
        /\ noaa'.pc = "idle"
        /\ noaa.columns # <<>>
        /\ ~NoaaIndexes(noaa.columns).ok)
       => (/\ logs'[noaa.log].status = "failed"
           /\ logs'[noaa.log].records_inserted = 0
           /\ noaa.i = 0)]_vars

CredAbsent(creds) == ~creds.username \/ ~creds.password

C3_OneLocationPerCoordinate ==
    /\ \A l \in locations : LocFilter(locations, l.latitude, l.longitude) = {l}
    /\ \A o \in temps \cup sals : \E l \in locations : l.id = o.location

\* The same coordinate ingested by a NOAA job and by a Copernicus job, beside another one
C3_Witness ==
    /\ Cardinality(locations) = 2
    /\ \E l \in locations :
          /\ \E o \in temps : o.location = l.id /\ o.source = NOAA
          /\ \E o \in sals : o.location = l.id /\ o.source = COPERNICUS

\* C4 (as claimed): under every interleaving of two jobs of different sources no coordinate
\* has two Location rows and no job fails on the lookup.
C4_ConcurrentResolveIsSafe ==
    /\ \A l \in locations : Cardinality(LocFilter(locations, l.latitude, l.longitude)) = 1
    /\ noaa.exc \notin {"MultipleObjectsReturned", "IntegrityError"}
    /\ cop.exc \notin {"MultipleObjectsReturned", "IntegrityError"}

\* The temperature a NOAA row asks to store, when every cell of it parses and is in range
TempWrite(columns, row) ==
    LET ix == NoaaIndexes(columns)
        okRow == ix.ok /\ ix.temp # 0 /\ Len(row) = Len(columns)
        a == NoaaLocArgs(row, ix)
        t == PyIsoTime(row[ix.time])
        v == PyFloat(row[ix.temp])
    IN IF /\ okRow
          /\ a.exc = "none"
          /\ t.exc = "none"
          /\ row[ix.temp] \notin MissingMarkers
          /\ v.exc = "none"
          /\ InRange(v, TempMin, TempMax)
       THEN [ok |-> TRUE, lat |-> a.lat, lon |-> a.lon, ts |-> t.val, val |-> v.val]
       ELSE [ok |-> FALSE, lat |-> 0, lon |-> 0, ts |-> 0, val |-> 0]

\* The salinity a Copernicus row asks to store
SalWrite(row) ==
    IF /\ CopLocArgs(row).exc = "none"
       /\ CopTime(row.timestamp).exc = "none"
       /\ PyFloat(row.so).exc = "none"
       /\ InRange(PyFloat(row.so), SalMin, CopSalMax)
    THEN [ok |-> TRUE, lat |-> PyFloat(row.lat).val, lon |-> PyFloat(row.lon).val,
          ts |-> CopTime(row.timestamp).val, val |-> PyFloat(row.so).val]
    ELSE [ok |-> FALSE, lat |-> 0, lon |-> 0, ts |-> 0, val |-> 0]

SameKey(w1, w2) == w1.lat = w2.lat /\ w1.lon = w2.lon /\ w1.ts = w2.ts

\* Rows i < j of a batch write one key with different values, and no later row writes it
WrittenTwice(w, i, j) ==
    /\ i < j
    /\ w[i].ok /\ w[j].ok
    /\ SameKey(w[i], w[j])
    /\ w[i].val # w[j].val
    /\ \A k \in (j + 1)..Len(w) : ~(w[k].ok /\ SameKey(w[k], w[j]))

\* The key of the write holds exactly one row of the table, with the value of the write
StoredOnce(table, src, w) ==
    \E l \in locations :
       /\ LocFilter(locations, w.lat, w.lon) = {l}
       /\ ObsFilter(table, l.id, src, w.ts) = {ObsRow(l.id, src, w.ts, w.val)}

NoaaWrites == [i \in 1..Len(last.noaaRows) |-> TempWrite(last.columns, last.noaaRows[i])]
CopWrites == [i \in 1..Len(last.copRows) |-> SalWrite(last.copRows[i])]

\* C5: when an invocation writes an observation key (location, source, timestamp) twice
\* with different values, the table holds exactly one row for the key afterwards, and its
\* value is the second one written.
C5_SecondWriteWins ==
    /\ \A i, j \in DOMAIN NoaaWrites :
          WrittenTwice(NoaaWrites, i, j) => StoredOnce(temps, NOAA, NoaaWrites[j])
    /\ \A i, j \in DOMAIN CopWrites :
          WrittenTwice(CopWrites, i, j) => StoredOnce(sals, COPERNICUS, CopWrites[j])

\* A NOAA batch whose two rows write one key with different temperatures
C5_Witness ==
    /\ last.src = NOAA
    /\ noaa.result = "success"
    /\ \E i, j \in DOMAIN NoaaWrites : WrittenTwice(NoaaWrites, i, j)

\* C6: an invocation that runs the batch of the invocation before it leaves the Location
\* rows and the observation rows exactly as that invocation left them.
C6_SecondRunChangesNothing ==
    [][last'.again => (locations' = locations /\ temps' = temps /\ sals' = sals)]_vars

\* A batch that stored two observations has been run a second time
C6_Witness ==
    /\ last.again
    /\ nextLogId = 3
    /\ Cardinality(locations) = 2
    /\ Cardinality(temps) = 2

C8_TransferErrorFailsJob ==
    /\ (noaa.pc = "idle" /\ noaa.exc = "RequestException")
       => (/\ noaa.result = "raised"
           /\ logs[noaa.log].status = "failed"
           /\ logs[noaa.log].completed_at # NullVal
           /\ logs[noaa.log].error_message # "")
    /\ (cop.pc = "idle" /\ cop.exc = "TransferError")
       => (/\ cop.result = "raised"
           /\ logs[cop.log].status = "failed"
           /\ logs[cop.log].completed_at # NullVal
           /\ logs[cop.log].error_message # "")

\* C9 (as claimed): for both providers an unexpected exception while rows are processed
\* leaves the job record failed and reaches the caller; the job never ends success.
C9_UnexpectedExceptionFailsJob ==
    /\ (noaa.pc = "idle" /\ noaa.exc \in UnexpectedRowExc)
       => (noaa.result = "raised" /\ logs[noaa.log].status = "failed")
    /\ (cop.pc = "idle" /\ cop.exc \in UnexpectedRowExc)
       => (cop.result = "raised" /\ logs[cop.log].status = "failed")

\* C10 (as claimed): a row whose latitude, longitude or timestamp cell cannot be parsed is
\* skipped: no exception of that kind escapes the job runner or fails the job.
C10_UnparsableRowIsSkipped ==
    /\ (noaa.pc = "idle" /\ noaa.result = "raised") => noaa.exc \notin ParseFailures
    /\ \A id \in DOMAIN logs : logs[id].status = "failed" => logs[id].error_message \notin ParseFailures

-----------------------------------------------------------------------------
(* The cells of the latest NOAA batch, as the specification speaks of them *)

Names(columns) == {columns[k] : k \in DOMAIN columns}

\* The position of a column name among the columns, or 0
ColumnOf(columns, name) ==
    IF name \in Names(columns) THEN CHOOSE k \in DOMAIN columns : columns[k] = name ELSE 0

\* The first name of an alias list that is a column name, or ""
FirstNamed(fields, columns) ==
    IF \E j \in DOMAIN fields : fields[j] \in Names(columns)
    THEN fields[CHOOSE j \in DOMAIN fields :
                   /\ fields[j] \in Names(columns)
                   /\ \A h \in 1..(j - 1) : fields[h] \notin Names(columns)]
    ELSE ""

TemperatureAliases == <<"wtmp", "sea_surface_temperature", "sst", "water_temperature">>
SalinityAliases == <<"sal", "salinity", "sea_surface_salinity", "psu">>

\* A cell that is a missing marker, in any letter case
MissingMarker(c) ==
    \/ c.kind = "null"
    \/ c.kind = "str" /\ c.str \in {"", "NaN", "nan", "NAN", "null", "NULL", "Null"}

\* A cell that is a number between lo and hi
Within(c, lo, hi) ==
    \/ c.kind = "num" /\ lo <= c.num /\ c.num <= hi
    \/ c.kind = "str" /\ c.str \in DOMAIN NumericText
                      /\ lo <= NumericText[c.str] /\ NumericText[c.str] <= hi

\* A cell that is a number
Numeric(c) == c.kind = "num" \/ (c.kind = "str" /\ c.str \in DOMAIN NumericText)

NumberOf(c) == IF c.kind = "num" THEN c.num ELSE NumericText[c.str]

BatchRows == 1..Len(last.noaaRows)

BatchCell(i, name) == last.noaaRows[i][ColumnOf(last.columns, name)]

HasTemperature == FirstNamed(TemperatureAliases, last.columns) # ""
HasSalinity == FirstNamed(SalinityAliases, last.columns) # ""
TemperatureCell(i) == BatchCell(i, FirstNamed(TemperatureAliases, last.columns))
SalinityCell(i) == BatchCell(i, FirstNamed(SalinityAliases, last.columns))

\* The coordinates and the time of row i are numbers and a timestamp
Located(i) ==
    /\ {"station", "latitude", "longitude", "time"} \subseteq Names(last.columns)
    /\ Len(last.noaaRows[i]) = Len(last.columns)
    /\ Numeric(BatchCell(i, "latitude"))
    /\ Numeric(BatchCell(i, "longitude"))
    /\ BatchCell(i, "time").kind = "str" /\ BatchCell(i, "time").str \in DOMAIN IsoText

\* The key of row i with a value: what a write of the row stores
KeyOf(i, val) ==
    [lat |-> NumberOf(BatchCell(i, "latitude")), lon |-> NumberOf(BatchCell(i, "longitude")),
     ts |-> IsoText[BatchCell(i, "time").str], val |-> val]

GoodTemperature(i) == Located(i) /\ HasTemperature /\ Within(TemperatureCell(i), -5, 40)
GoodSalinity(i) == Located(i) /\ HasSalinity /\ Within(SalinityCell(i), 0, 45)

\* Row i carries a valid value and no later row of the batch writes its key again
LastTemperature(i) ==
    /\ GoodTemperature(i)
    /\ \A j \in BatchRows : j > i /\ GoodTemperature(j) => ~SameKey(KeyOf(i, 0), KeyOf(j, 0))
LastSalinity(i) ==
    /\ GoodSalinity(i)
    /\ \A j \in BatchRows : j > i /\ GoodSalinity(j) => ~SameKey(KeyOf(i, 0), KeyOf(j, 0))

\* No row of the batch with the key of row i carries a valid value
NoTemperatureFor(i) ==
    \A j \in BatchRows : GoodTemperature(j) => ~SameKey(KeyOf(i, 0), KeyOf(j, 0))
NoSalinityFor(i) ==
    \A j \in BatchRows : GoodSalinity(j) => ~SameKey(KeyOf(i, 0), KeyOf(j, 0))

\* The table holds no NOAA observation under the key of row i
NothingStored(table, i) ==
    \A l \in LocFilter(locations, KeyOf(i, 0).lat, KeyOf(i, 0).lon) :
       ObsFilter(table, l.id, NOAA, KeyOf(i, 0).ts) = {}

\* The latest invocation was a NOAA one whose every row has coordinates and a time
WholeBatch == last.src = NOAA /\ \A i \in BatchRows : Located(i)

\* A temperature cell that is present and is rejected
RejectedTemperature(i) ==
    /\ HasTemperature
    /\ ~MissingMarker(TemperatureCell(i))
    /\ ~Within(TemperatureCell(i), -5, 40)

\* C11: a present temperature outside [-5, 40], or an unparsable one, writes no temperature
\* observation for its row; -5 and 40 themselves are stored; and the salinity of a row
\* whose temperature was rejected is still validated and stored when it is valid.
C11_RejectedTemperatureOnly ==
    WholeBatch =>
       \A i \in BatchRows :
          /\ RejectedTemperature(i) /\ NoTemperatureFor(i) => NothingStored(temps, i)
          /\ LastTemperature(i) /\ NumberOf(TemperatureCell(i)) \in {-5, 40}
                => StoredOnce(temps, NOAA, KeyOf(i, NumberOf(TemperatureCell(i))))
          /\ RejectedTemperature(i) /\ LastSalinity(i)
                => StoredOnce(sals, NOAA, KeyOf(i, NumberOf(SalinityCell(i))))
          /\ RejectedTemperature(i) /\ HasSalinity /\ NoSalinityFor(i) => NothingStored(sals, i)

\* A batch of two rows: temperature 41 with salinity 45, then "abc" with 46; only 45 is stored
C11_Witness ==
    /\ WholeBatch
    /\ last.columns = QuantityLayout
    /\ Len(last.noaaRows) = 2
    /\ TemperatureCell(1) = Num(41) /\ SalinityCell(1) = Num(45)
    /\ TemperatureCell(2) = Str("abc") /\ SalinityCell(2) = Num(46)
    /\ temps = {}
    /\ \E o \in sals : sals = {o} /\ o.value = 45 /\ o.source = NOAA

\* A cell of either quantity that is a missing marker
MarkedTemperature(i) == HasTemperature /\ MissingMarker(TemperatureCell(i))
MarkedSalinity(i) == HasSalinity /\ MissingMarker(SalinityCell(i))

\* C12: a quantity cell that is a missing marker (empty, null, any letter case of "nan" or
\* "null") writes no observation of that quantity for its row, the other quantity of the
\* row is still stored when valid, and the batch runs to its end as a success that counts
\* every row.
C12_MissingMarkerIsAbsent ==
    WholeBatch =>
       /\ \A i \in BatchRows :
             /\ MarkedTemperature(i) /\ NoTemperatureFor(i) => NothingStored(temps, i)
             /\ MarkedSalinity(i) /\ NoSalinityFor(i) => NothingStored(sals, i)
             /\ MarkedTemperature(i) /\ LastSalinity(i)
                   => StoredOnce(sals, NOAA, KeyOf(i, NumberOf(SalinityCell(i))))
             /\ MarkedSalinity(i) /\ LastTemperature(i)
                   => StoredOnce(temps, NOAA, KeyOf(i, NumberOf(TemperatureCell(i))))
       /\ (\E i \in BatchRows : MarkedTemperature(i) \/ MarkedSalinity(i))
             => /\ logs[Len(logs)].status = "success"
                /\ logs[Len(logs)].records_fetched = Len(last.noaaRows)

\* Markers in both rows: "" with salinity 0, then temperature 40 with "Null"; both others stored
C12_Witness ==
    /\ WholeBatch
    /\ last.columns = QuantityLayout
    /\ Len(last.noaaRows) = 2
    /\ TemperatureCell(1) = Str("") /\ SalinityCell(1) = Num(0)
    /\ TemperatureCell(2) = Num(40) /\ SalinityCell(2) = Str("Null")
    /\ \E t \in temps : temps = {t} /\ t.value = 40
    /\ \E o \in sals : sals = {o} /\ o.value = 0
    /\ logs[Len(logs)].status = "success"

\* C13: every salinity observation an ingestion job of either provider stores has a value
\* in [0, 45]; a present salinity outside that range is never stored.
C13_SalinityWithin45 == \A o \in sals : 0 <= o.value /\ o.value <= 45

\* C14: a NOAA batch with all mandatory columns ends as a success whose records_fetched is
\* the number of rows and whose records_inserted is the number of valid temperature cells
\* plus the number of valid salinity cells (of the rows that have coordinates and a time);
\* a row whose temperature is a missing marker still resolves its Location.
C14_BatchWithColumnsSucceeds ==
    last.src = NOAA /\ {"station", "latitude", "longitude", "time"} \subseteq Names(last.columns)
       => /\ logs[Len(logs)].status = "success"
          /\ logs[Len(logs)].records_fetched = Len(last.noaaRows)
          /\ logs[Len(logs)].records_inserted =
                Cardinality({i \in BatchRows : GoodTemperature(i)})
                  + Cardinality({i \in BatchRows : GoodSalinity(i)})
          /\ \A i \in BatchRows :
                Located(i) /\ MarkedTemperature(i)
                   => LocFilter(locations, KeyOf(i, 0).lat, KeyOf(i, 0).lon) # {}

\* C20: each quantity is read from the column of the first name of its alias list that is
\* a column name, whatever the order of the columns; a quantity none of whose aliases is a
\* column name stores nothing, and the job still ends as a success.
C20_FirstAliasInListOrder ==
    WholeBatch =>
       /\ \A i \in BatchRows :
             /\ LastTemperature(i)
                   => StoredOnce(temps, NOAA, KeyOf(i, NumberOf(TemperatureCell(i))))
             /\ LastSalinity(i)
                   => StoredOnce(sals, NOAA, KeyOf(i, NumberOf(SalinityCell(i))))
       /\ ~HasTemperature => temps = {} /\ logs[Len(logs)].status = "success"
       /\ ~HasSalinity => sals = {} /\ logs[Len(logs)].status = "success"

\* Columns water_temperature (23) before sst (22) and no salinity alias: 22 is stored
C20_Witness ==
    /\ WholeBatch
    /\ last.columns = ReorderedLayout
    /\ Len(last.noaaRows) = 1
    /\ BatchCell(1, "water_temperature") = Num(23)
    /\ \E t \in temps : temps = {t} /\ t.value = 22
    /\ sals = {}
    /\ logs[Len(logs)].status = "success"

\* An invocation of a provider begins, ends, in this step
Begins(p, q) == p.pc = "idle" /\ q.pc # "idle"
Ends(p, q) == p.pc # "idle" /\ q.pc = "idle"

\* C17: an invocation of fetch_buoy_data or fetch_salinity_data creates one job record,
\* when it begins, and no other step of it creates one, whether it returns or raises; it
\* keeps that record to its end and never goes back to fetching once it has fetched.
C17_OneRecordPerInvocation ==
    [][/\ Cardinality(DOMAIN logs') =
             Cardinality(DOMAIN logs) + (IF Begins(noaa, noaa') THEN 1 ELSE 0)
                                      + (IF Begins(cop, cop') THEN 1 ELSE 0)
       /\ Begins(noaa, noaa') => noaa'.log \in (DOMAIN logs') \ (DOMAIN logs)
       /\ Begins(cop, cop') => cop'.log \in (DOMAIN logs') \ (DOMAIN logs)
       /\ noaa.pc # "idle" => /\ noaa'.log = noaa.log
                              /\ noaa' # noaa => noaa'.pc # "fetch"
       /\ cop.pc # "idle" => /\ cop'.log = cop.log
                             /\ cop' # cop => cop'.pc # "fetch"
       /\ Ends(noaa, noaa') => noaa'.result \in {"success", "raised"}
       /\ Ends(cop, cop') => cop'.result \in {"success", "raised"}]_vars

\* A NOAA invocation has raised and a Copernicus one has returned: two job records
C17_Witness ==
    /\ noaa.pc = "idle" /\ noaa.result = "raised"
    /\ cop.pc = "idle" /\ cop.result = "success"
    /\ DOMAIN logs = {1, 2}
    /\ noaa.log # cop.log

\* DataSource.last_fetch of a source, null while the source has no row
LastFetchOf(srcs, name) == IF name \in DOMAIN srcs THEN srcs[name].last_fetch ELSE NullVal

\* C19: an invocation whose job record ends success sets its Source's last_fetch to the
\* time of the end; one whose job record ends failed leaves it as it was; and no other
\* step changes a Source's last_fetch.
C19_LastFetchOnSuccessOnly ==
    [][/\ Ends(noaa, noaa') /\ logs'[noaa.log].status = "success"
             => LastFetchOf(sources', NOAA) = <<now>>
       /\ ~(Ends(noaa, noaa') /\ logs'[noaa.log].status = "success")
             => LastFetchOf(sources', NOAA) = LastFetchOf(sources, NOAA)
       /\ Ends(cop, cop') /\ logs'[cop.log].status = "success"
             => LastFetchOf(sources', COPERNICUS) = <<now>>
       /\ ~(Ends(cop, cop') /\ logs'[cop.log].status = "success")
             => LastFetchOf(sources', COPERNICUS) = LastFetchOf(sources, COPERNICUS)]_vars

\* A NOAA job succeeded at tick 0 and another failed at tick 1: last_fetch is still tick 0
C19_Witness ==
    /\ {1, 2} \subseteq DOMAIN logs
    /\ logs[1].source = NOAA /\ logs[1].status = "success" /\ logs[1].completed_at = <<0>>
    /\ logs[2].source = NOAA /\ logs[2].status = "failed" /\ logs[2].completed_at = <<1>>
    /\ sources[NOAA].last_fetch = <<0>>

\* C15: a sweep that follows another, at the same reading of the clock and with no row
\* inserted in between, reports zero deletions for temperature, salinity, currents and
\* job logs.
C15_SecondSweepDeletesNothing ==
    last.src = "sweep" /\ last.again
       => /\ stats.temperature_deleted = 0
          /\ stats.salinity_deleted = 0
          /\ stats.currents_deleted = 0
          /\ stats.logs_deleted = 0

\* A second sweep after one that removed rows, with rows of every table still stored
C15_Witness ==
    /\ last.src = "sweep" /\ last.again
    /\ stats.first >= 3
    /\ temps # {} /\ sals # {} /\ currents # {} /\ DOMAIN logs # {}

\* What a sweep that returns does to an observation table, and the count it reports
SweptTo(before, after, cutoff, count) ==
    /\ \A o \in after : o.timestamp >= cutoff
    /\ \A o \in before : o.timestamp >= cutoff => o \in after
    /\ after \subseteq before
    /\ count = Cardinality(before \ after)

\* C16: when a sweep returns, each of the three observation tables holds none of its rows
\* older than the cut-off and every one of its rows at or after the cut-off, and each of the
\* four reported counts is the number of rows the sweep removed from that table.
C16_SweepRemovesExactlyTheExpired ==
    [][last'.src = "sweep" /\ now' = now
          => /\ SweptTo(temps, temps', now - 365, stats'.temperature_deleted)
             /\ SweptTo(sals, sals', now - 365, stats'.salinity_deleted)
             /\ SweptTo(currents, currents', now - 365, stats'.currents_deleted)
             /\ stats'.logs_deleted = Cardinality((DOMAIN logs) \ (DOMAIN logs'))
             /\ \A id \in DOMAIN logs' : id \in DOMAIN logs /\ logs'[id] = logs[id]]_vars

\* A sweep removed one row of each observation table and kept the rows at the cut-off
C16_Witness ==
    /\ last.src = "sweep"
    /\ stats.temperature_deleted = 1 /\ stats.salinity_deleted = 1 /\ stats.currents_deleted = 1
    /\ \E o \in temps : o.timestamp = stats.cutoff_date
    /\ \E o \in sals : o.timestamp = stats.cutoff_date
    /\ \E o \in currents : o.timestamp = stats.cutoff_date

\* The task has returned a result or has surfaced its final failure
TaskOver == {"succeeded", "failed"}

\* C18: a scheduled fetch task whose invocation raises is retried after a fixed delay, at
\* most 3 times; one scheduled NOAA task makes at most 4 attempts and leaves at most 4 job
\* records; the failure is surfaced only once the retries are exhausted; and a task that
\* has succeeded or has surfaced its failure makes no further attempt.
C18_AtMostThreeRetries ==
    [][/\ task'.retries <= 3
       /\ task'.attempts <= 4
       /\ Cardinality(DOMAIN logs') <= 4
       /\ Cardinality(DOMAIN logs') <= task'.attempts
       /\ task'.pc = "retry" => task'.countdown = 300 /\ task'.exc # "none"
       /\ task'.pc = "failed" => task'.attempts = 4 /\ task'.exc # "none"
       /\ task'.attempts # task.attempts => task'.attempts = task.attempts + 1
       /\ task.pc \in TaskOver => task' = task /\ logs' = logs]_vars

\* The task gave up after four raising attempts, each of which left a failed job record
C18_Witness ==
    /\ task.pc = "failed"
    /\ task.attempts = 4
    /\ task.retries = 3
    /\ DOMAIN logs = 1..4
    /\ \A id \in DOMAIN logs : logs[id].status = "failed"

\* C22: every Location row an ingestion job creates has its latitude in [-90, 90] and its
\* longitude in [-180, 180], whatever coordinates the rows of the provider carry.
C22_CoordinatesWithinRange ==
    \A l \in locations : /\ -90 <= l.latitude /\ l.latitude <= 90
                         /\ -180 <= l.longitude /\ l.longitude <= 180

\* The number of quantities the columns of the latest batch make available
QuantitiesAvailable == (IF HasTemperature THEN 1 ELSE 0) + (IF HasSalinity THEN 1 ELSE 0)

Fatal(i) ==
    \/ BatchCell(i, "latitude") = NullCell
    \/ Numeric(BatchCell(i, "latitude")) /\ BatchCell(i, "longitude") = NullCell
    \/ /\ Numeric(BatchCell(i, "latitude")) /\ Numeric(BatchCell(i, "longitude"))
       /\ BatchCell(i, "time") = NullCell

\* Row f is the first such row of the batch
FirstFatal(f) == Fatal(f) /\ \A i \in 1..(f - 1) : ~Fatal(i)

\* Row i stores a temperature that no row between it and row f writes again
LastTemperatureBefore(i, f) ==
    /\ i < f
    /\ GoodTemperature(i)
    /\ \A j \in (i + 1)..(f - 1) : GoodTemperature(j) => ~SameKey(KeyOf(i, 0), KeyOf(j, 0))

C21_ConfiguredLogRetention ==
    [][last'.src = "sweep" /\ now' = now
          => /\ DOMAIN logs' =
                  {id \in DOMAIN logs :
                     logs[id].started_at >= now - SettingsGet(settings, "LOG_RETENTION_DAYS", 90)}
             /\ \A id \in DOMAIN logs' : logs'[id] = logs[id]]_vars

\* C23: a sweep, whether it returns or raises, leaves the Location table and the Source
\* table as they were, so that a Location all of whose observations were deleted is still
\* stored.
C23_SweepKeepsLocations ==
    [][last'.src \in {"sweep", "sweep raised"} /\ now' = now
          => locations' = locations /\ sources' = sources]_vars

\* A sweep removed observations and a Location is left without any observation
C23_Witness ==
    /\ last.src = "sweep"
    /\ stats.temperature_deleted > 0 /\ stats.salinity_deleted > 0
    /\ \E l \in locations :
          /\ \A o \in temps : o.location # l.id
          /\ \A o \in sals : o.location # l.id
          /\ \A o \in currents : o.location # l.id
    /\ NOAA \in DOMAIN sources

\* C24: an invocation that resolves a coordinate which has a Location returns that row and
\* leaves its name and region as stored, whatever hints it supplies: no stored Location
\* changes, a Location is created only for a coordinate that had none, and every
\* observation written refers to the one Location of its coordinate.
C24_HintsOnlyOnCreate ==
    [][/\ \A l \in locations : l \in locations'
       /\ \A n \in locations' \ locations : LocFilter(locations, n.latitude, n.longitude) = {}
       /\ \A o \in (temps' \ temps) \cup (sals' \ sals) :
             \E l \in locations' :
                /\ l.id = o.location
                /\ LocFilter(locations', l.latitude, l.longitude) = {l}]_vars

\* A Location that a NOAA job created, still with the name and region of that job, holds a
\* salinity that a Copernicus job wrote with other hints
C24_Witness ==
    /\ last.src = COPERNICUS
    /\ \E l \in locations :
          /\ l.name = "Buoy S1" /\ l.region = "NOAA Network"
          /\ \E o \in sals : o.location = l.id /\ o.source = COPERNICUS

\* C30: a job record has a completion time exactly when its status is success or failed;
\* a running record has no completion time and an empty error message; a success record
\* has an empty error message.
C30_CompletionIffTerminal ==
    \A id \in DOMAIN logs :
       /\ logs[id].completed_at # NullVal <=> logs[id].status \in Terminal
       /\ logs[id].status = "running"
             => logs[id].completed_at = NullVal /\ logs[id].error_message = ""
       /\ logs[id].status = "success" => logs[id].error_message = ""

\* A success record of one provider beside a running record of the other
C30_Witness ==
    /\ DOMAIN logs = {1, 2}
    /\ logs[1].source # logs[2].source
    /\ logs[1].status = "success" /\ logs[1].completed_at = <<0>>
    /\ logs[2].status = "running" /\ logs[2].started_at = 1

\* An invocation is over: it was abandoned, or it returned or raised with its job record
\* in status success or failed
OverOrAbandoned(p) ==
    /\ p.pc = "idle"
    /\ \/ p.result = "abandoned"
       \/ p.result \in {"success", "raised"} /\ logs[p.log].status \in Terminal

Abandoned(id) ==
    /\ id \in DOMAIN logs
    /\ logs[id].status = "running"
    /\ ~(noaa.pc # "idle" /\ noaa.log = id)
    /\ ~(cop.pc # "idle" /\ cop.log = id)

\* C26: a job record left in status running by an abandoned invocation is changed by no
\* later step: every step leaves it as it is, except a sweep that deletes it because it
\* was started before the job-log cut-off
C26_AbandonedStaysRunning ==
    [][\A id \in DOMAIN logs :
         Abandoned(id) =>
           IF id \in DOMAIN logs'
           THEN logs'[id] = logs[id]
           ELSE last'.src = "sweep" /\ logs[id].started_at < now - LogRetentionDays]_vars

\* An abandoned record beside the terminal record of a later invocation, after a sweep
\* that found it too young to delete
C26_Witness ==
    /\ last.src = "sweep"
    /\ \E id \in DOMAIN logs : \E j \in DOMAIN logs :
          /\ Abandoned(id)
          /\ j > id
          /\ logs[j].status \in Terminal

\* C28: whatever the order of seed commands and ingestion jobs, no two Locations share
\* (latitude, longitude, depth), and a NOAA job whose rows are all well formed succeeds
C28_SeedKeepsLocationsUnique ==
    /\ \A l1 \in locations : \A l2 \in locations :
          (/\ l1.latitude = l2.latitude
           /\ l1.longitude = l2.longitude
           /\ l1.depth_meters = l2.depth_meters) => l1 = l2
    /\ (last.src = NOAA /\ noaa.pc = "idle") => noaa.result = "success"

====
